---------------------------- MODULE Spec2Model ----------------------------
(***************************************************************************)
(* A model of the agent package of llemme-go (sultanfariz/gonostic).       *)
(*                                                                         *)
(* The asynchronous job executor of pkg/agent/state.go:                    *)
(*   Spec         Submit, the worker pool, GetStatus and GetResult         *)
(*   SpecTimeout  Submit with timeouts, the worker pool and the timer      *)
(*   SpecSync     Submit, the worker pool and ExecuteSync                  *)
(*   SpecLive     Submit, the worker pool and GetResult, scheduled fairly  *)
(* The reasoning loop of pkg/agent/llm_agent.go, LLMAgent.Execute, one     *)
(* model call, tool call or sub-agent call per step:                       *)
(*   SpecLoop     MaxTurns -1, 1..MaxTurnsCfg, every answer of the model   *)
(*   SpecBudget   MaxTurns -1..MaxTurnsCfg (0: the default of 10 turns),   *)
(*                a model with few answers                                 *)
(*                                                                         *)
(* The composite agents (SequentialAgent, ParallelAgent, PipelineAgent),    *)
(* over children that write state, report deltas, succeed or fail:         *)
(*   SpecChain    one Execute of a Sequential or of a Pipeline agent       *)
(*   SpecParallel one Execute of a Parallel agent, one goroutine per child *)
(*                                                                         *)
(* The state store MapState of pkg/agent/state.go:                         *)
(*   SpecStore    concurrent Get, Set, Delete, Keys and Merge calls        *)
(*                                                                         *)
(* All specifications share the module's variables; each leaves the        *)
(* variables of the other parts at their initial values.                   *)
(***************************************************************************)
EXTENDS Integers, Sequences, FiniteSets, TLC

VARIABLES
    \* ---- Executor (state.go) ----
    jobs,       \* e.jobs: the task ids in the job table (id -> *Job)
    job,        \* the Job objects, by task id: Status, Result, Error, Config
    jobQueue,   \* e.jobQueue: the buffered channel, a sequence of task ids
    nextID,     \* the next fresh task id (uuid.New() never repeats)
    subPc,      \* per task id: where its Submit call stands
    wPc,        \* per worker: its position in worker/executeJob
    wJob,       \* per worker: the job it took from the channel (0: none)
    wCtx,       \* per worker: the execution context of executeJob
    wRet,       \* per worker: executeJob's locals result, err
    rd,         \* per reader: its GetStatus/GetResult call and what it returned
    syncPc,     \* the ExecuteSync caller's position
    syncRet,    \* what the last ExecuteSync call returned
    agentRet,   \* history: what e.agent.Execute returned for each job
    expired,    \* history: jobs whose timeout expired before the agent returned
    taken,      \* history: per task id, the workers that received it, in order
    \* ---- LLMAgent (llm_agent.go) ----
    maxTurns,   \* a.maxTurns, as NewLLMAgent set it
    subAgents,  \* a.subAgents: the names of the configured sub-agents, in order
    taskState,  \* task.State: key -> value
    lp,         \* where Execute stands: ready, turn, tools, sub, done
    turn,       \* the loop variable turn
    resp,       \* the model's response of this turn (its ToolCalls are updated)
    tcIdx,      \* the index i of the tool call under way
    step,       \* the ExecutionStep under construction
    result,     \* the *Result under construction, returned at the end
    retErr,     \* the error Execute returned
    calls,      \* history: the model, tool and sub-agent calls made, in order
    \* ---- SequentialAgent, ParallelAgent, PipelineAgent ----
    ckind,        \* which composite's Execute runs: sequential, parallel, pipeline
    agents,       \* a.agents (a.stages): the names of the children, in order
    task,         \* the *Task given to Execute: Input and State
    task0,        \* history: the task as it was when Execute was called
    cpc,          \* where Execute stands: ready, loop, call, wait, done
    cidx,         \* the index of the child the loop is at
    currentInput, \* PipelineAgent.Execute's currentInput
    child,        \* per child: its execution (pc), the task it was given
                  \* (own State copy or the caller's, Input), what it did,
                  \* and as history its number of starts, its return rank
                  \* and what its Execute returned
    results,      \* per child: what its Execute returned (result, err)
    compResult,   \* the *Result under construction, returned at the end
    compErr,      \* the error Execute returned
    \* ---- MapState (state.go) ----
    mapState,     \* a *MapState: its data and its mutex mu (writer, readers)
    stateCalls    \* per caller: its call of a method, where the call stands,
                  \* the keys Merge has still to write, what the call returned

execVars == <<jobs, job, jobQueue, nextID, subPc, wPc, wJob, wCtx, wRet, rd,
              syncPc, syncRet, agentRet, expired, taken>>

loopVars == <<maxTurns, subAgents, taskState, lp, turn, resp, tcIdx, step,
              result, retErr, calls>>

compVars == <<ckind, agents, task, task0, cpc, cidx, currentInput, child,
              results, compResult, compErr>>

storeVars == <<mapState, stateCalls>>

vars == <<execVars, loopVars, compVars, storeVars>>

-----------------------------------------------------------------------------
(* Bounds of the model *)

\* Submit calls made in a run (one task id each).
MaxJobs == 3
\* Capacity of the job channel in the model; the code allocates 100 slots.
QueueCap == 1
\* The largest MaxTurns an LLMAgent is configured with.
MaxTurnsCfg == 2
\* Submit calls made in a run under fair scheduling.
LiveJobs == 2

JobIds == 1..MaxJobs
\* The worker goroutines started by NewExecutor.
Workers == {"w1", "w2"}
\* Callers of GetStatus / GetResult.
Readers == {"r1"}
\* An identifier no Submit call ever allocates.
UnknownID == MaxJobs + 1

-----------------------------------------------------------------------------
(* Values *)

JobPending == "pending"
JobRunning == "running"
JobCompleted == "completed"
JobFailed == "failed"

NoError == "nil"
ErrAgent == "agent error"
ErrDeadline == "context deadline exceeded"
ErrNotFound == "task not found"

\* A *Result: nil, or a Result with its Success flag and Output.
NilResult == [isNil |-> TRUE, Success |-> FALSE, Output |-> "none"]
OkResult == [isNil |-> FALSE, Success |-> TRUE, Output |-> "answer"]
FailResult == [isNil |-> FALSE, Success |-> FALSE, Output |-> "none"]

\* *ExecutionConfig given to Submit: nil, or one with TimeoutSeconds.
NilConfig == [isNil |-> TRUE, TimeoutSeconds |-> 0]
Configs == {NilConfig,
            [isNil |-> FALSE, TimeoutSeconds |-> 0],
            [isNil |-> FALSE, TimeoutSeconds |-> 1]}

\* The context executeJob derives: bounded by a timeout or not, expired or not.
Background == [deadline |-> FALSE, done |-> FALSE]

\* executeJob: ctx is context.Background() unless the task has a config with a
\* positive TimeoutSeconds.
ContextFor(cfg) ==
    IF ~cfg.isNil /\ cfg.TimeoutSeconds > 0
    THEN [deadline |-> TRUE, done |-> FALSE]
    ELSE Background

\* What an Agent's Execute may return under a context. The Agent interface
\* leaves it to the implementation whether cancellation is observed:
\* LLMAgent.Execute never reads ctx itself and returns (result, nil) on its
\* completion path whatever the context's state.
AgentOutcomes(ctx) ==
    {<<OkResult, NoError>>, <<FailResult, ErrAgent>>}
    \cup (IF ctx.done THEN {<<FailResult, ErrDeadline>>} ELSE {})

NoRet == <<NilResult, NoError>>

IsTerminal(s) == s \in {JobCompleted, JobFailed}

-----------------------------------------------------------------------------
(* Executor: initial state, NewExecutor *)

IdleReader == [op |-> "none", id |-> UnknownID, pc |-> "idle",
               status |-> "", result |-> NilResult, err |-> NoError]

\* A Job object not created yet.
NoJob == [Status |-> "", Result |-> NilResult, Error |-> NoError,
          Config |-> NilConfig]

InitExec ==
    /\ jobs = {}
    /\ job = [i \in JobIds |-> NoJob]
    /\ jobQueue = <<>>
    /\ nextID = 1
    /\ subPc = [i \in JobIds |-> "none"]
    /\ wPc = [w \in Workers |-> "idle"]
    /\ wJob = [w \in Workers |-> 0]
    /\ wCtx = [w \in Workers |-> Background]
    /\ wRet = [w \in Workers |-> NoRet]
    /\ rd = [r \in Readers |-> IdleReader]
    /\ syncPc = "idle"
    /\ syncRet = NoRet
    /\ agentRet = [i \in JobIds |-> NoRet]
    /\ expired = {}
    /\ taken = [i \in JobIds |-> <<>>]

-----------------------------------------------------------------------------
(* Executor.Submit *)

\* Mutant of SubmitRegister: the Job is created but never put in the job table.
SubmitRegisterUnlisted(cfg) ==
    /\ nextID <= MaxJobs
    /\ job' = [job EXCEPT ![nextID] =
                   [Status |-> JobPending, Result |-> NilResult,
                    Error |-> NoError, Config |-> cfg]]
    /\ subPc' = [subPc EXCEPT ![nextID] = "enqueue"]
    /\ nextID' = nextID + 1
    /\ UNCHANGED <<jobs, jobQueue, wPc, wJob, wCtx, wRet, rd, syncPc, syncRet,
                   agentRet, expired, taken>>

\* Lines 126-149: a fresh task id, the task, the Job in status pending, and
\* its entry in the job table under e.mu. Everything before the locked insert
\* is local to the caller.
SubmitRegister(cfg) ==
    /\ nextID <= MaxJobs
    /\ jobs' = jobs \cup {nextID}
    /\ job' = [job EXCEPT ![nextID] =
                   [Status |-> JobPending, Result |-> NilResult,
                    Error |-> NoError, Config |-> cfg]]
    /\ subPc' = [subPc EXCEPT ![nextID] = "enqueue"]
    /\ nextID' = nextID + 1
    /\ UNCHANGED <<jobQueue, wPc, wJob, wCtx, wRet, rd, syncPc, syncRet,
                   agentRet, expired, taken>>

\* Mutant of SubmitEnqueue: a send that gives up when the channel is full.
SubmitEnqueueOrDrop(id) ==
    /\ subPc[id] = "enqueue"
    /\ jobQueue' = IF Len(jobQueue) < QueueCap
                   THEN Append(jobQueue, id) ELSE jobQueue
    /\ subPc' = [subPc EXCEPT ![id] = "returned"]
    /\ UNCHANGED <<jobs, job, nextID, wPc, wJob, wCtx, wRet, rd, syncPc,
                   syncRet, agentRet, expired, taken>>

\* Lines 152-154: e.jobQueue <- job blocks while the channel is full; then
\* Submit returns the task id.
SubmitEnqueue(id) ==
    /\ subPc[id] = "enqueue"
    /\ Len(jobQueue) < QueueCap
    /\ jobQueue' = Append(jobQueue, id)
    /\ subPc' = [subPc EXCEPT ![id] = "returned"]
    /\ UNCHANGED <<jobs, job, nextID, wPc, wJob, wCtx, wRet, rd, syncPc,
                   syncRet, agentRet, expired, taken>>

-----------------------------------------------------------------------------
(* Executor.worker and Executor.executeJob *)

\* Mutant of WorkerDequeue: the worker receives the job and drops it.
WorkerDequeueDrops(w) ==
    /\ wPc[w] = "idle"
    /\ jobQueue # <<>>
    /\ jobQueue' = Tail(jobQueue)
    /\ taken' = [taken EXCEPT ![Head(jobQueue)] = Append(@, w)]
    /\ UNCHANGED <<jobs, job, nextID, subPc, wPc, wJob, wCtx, wRet, rd, syncPc,
                   syncRet, agentRet, expired>>

\* worker: for job := range e.jobQueue receives the head of the channel.
WorkerDequeue(w) ==
    /\ wPc[w] = "idle"
    /\ jobQueue # <<>>
    /\ wJob' = [wJob EXCEPT ![w] = Head(jobQueue)]
    /\ jobQueue' = Tail(jobQueue)
    /\ wPc' = [wPc EXCEPT ![w] = "start"]
    /\ taken' = [taken EXCEPT ![Head(jobQueue)] = Append(@, w)]
    /\ UNCHANGED <<jobs, job, nextID, subPc, wCtx, wRet, rd, syncPc, syncRet,
                   agentRet, expired>>

\* Mutant of ExecuteJobStart: the status is not set to running.
ExecuteJobStartStaysPending(w) ==
    /\ wPc[w] = "start"
    /\ wCtx' = [wCtx EXCEPT ![w] = ContextFor(job[wJob[w]].Config)]
    /\ wPc' = [wPc EXCEPT ![w] = "exec"]
    /\ UNCHANGED <<jobs, job, jobQueue, nextID, subPc, wJob, wRet, rd, syncPc,
                   syncRet, agentRet, expired, taken>>

\* executeJob lines 206-216: Status = running under e.mu, then the context.
ExecuteJobStart(w) ==
    /\ wPc[w] = "start"
    /\ job' = [job EXCEPT ![wJob[w]].Status = JobRunning]
    /\ wCtx' = [wCtx EXCEPT ![w] = ContextFor(job[wJob[w]].Config)]
    /\ wPc' = [wPc EXCEPT ![w] = "exec"]
    /\ UNCHANGED <<jobs, jobQueue, nextID, subPc, wJob, wRet, rd, syncPc,
                   syncRet, agentRet, expired, taken>>

\* The timer of context.WithTimeout fires while e.agent.Execute is running.
ContextTimeout(w) ==
    /\ wPc[w] = "exec"
    /\ wCtx[w].deadline
    /\ ~wCtx[w].done
    /\ wCtx' = [wCtx EXCEPT ![w].done = TRUE]
    /\ expired' = expired \cup {wJob[w]}
    /\ UNCHANGED <<jobs, job, jobQueue, nextID, subPc, wPc, wJob, wRet, rd,
                   syncPc, syncRet, agentRet, taken>>

\* Line 219: result, err := e.agent.Execute(ctx, job.Task) returns.
AgentReturn(w) ==
    /\ wPc[w] = "exec"
    /\ \E out \in AgentOutcomes(wCtx[w]) :
          /\ wRet' = [wRet EXCEPT ![w] = out]
          /\ agentRet' = [agentRet EXCEPT ![wJob[w]] = out]
    /\ wPc' = [wPc EXCEPT ![w] = "record"]
    /\ UNCHANGED <<jobs, job, jobQueue, nextID, subPc, wJob, wCtx, rd, syncPc,
                   syncRet, expired, taken>>

\* Mutant of ExecuteJobRecord: the final status is published first, the
\* Result and Error only afterwards.
ExecuteJobStatusFirst(w) ==
    /\ wPc[w] = "record"
    /\ job' = [job EXCEPT ![wJob[w]].Status =
                   IF wRet[w][2] # NoError THEN JobFailed ELSE JobCompleted]
    /\ wPc' = [wPc EXCEPT ![w] = "final"]
    /\ UNCHANGED <<jobs, jobQueue, nextID, subPc, wJob, wCtx, wRet, rd, syncPc,
                   syncRet, agentRet, expired, taken>>

\* Lines 221-223: job.Result = result; job.Error = err, outside the lock.
ExecuteJobRecord(w) ==
    /\ wPc[w] = "record"
    /\ job' = [job EXCEPT ![wJob[w]].Result = wRet[w][1],
                          ![wJob[w]].Error = wRet[w][2]]
    /\ wPc' = [wPc EXCEPT ![w] = "final"]
    /\ UNCHANGED <<jobs, jobQueue, nextID, subPc, wJob, wCtx, wRet, rd, syncPc,
                   syncRet, agentRet, expired, taken>>

\* Mutant of ExecuteJobFinal: the worker goes back to the channel without
\* the final status.
ExecuteJobFinalLeavesRunning(w) ==
    /\ wPc[w] = "final"
    /\ wPc' = [wPc EXCEPT ![w] = "idle"]
    /\ wJob' = [wJob EXCEPT ![w] = 0]
    /\ wCtx' = [wCtx EXCEPT ![w] = Background]
    /\ wRet' = [wRet EXCEPT ![w] = NoRet]
    /\ UNCHANGED <<jobs, job, jobQueue, nextID, subPc, rd, syncPc, syncRet,
                   agentRet, expired, taken>>

\* Lines 226-232: the final status under e.mu; executeJob returns and the
\* worker goes back to the channel.
ExecuteJobFinal(w) ==
    /\ wPc[w] = "final"
    /\ job' = [job EXCEPT ![wJob[w]].Status =
                   IF wRet[w][2] # NoError THEN JobFailed ELSE JobCompleted]
    /\ wPc' = [wPc EXCEPT ![w] = "idle"]
    /\ wJob' = [wJob EXCEPT ![w] = 0]
    /\ wCtx' = [wCtx EXCEPT ![w] = Background]
    /\ wRet' = [wRet EXCEPT ![w] = NoRet]
    /\ UNCHANGED <<jobs, jobQueue, nextID, subPc, rd, syncPc, syncRet,
                   agentRet, expired, taken>>

-----------------------------------------------------------------------------
(* Executor.GetStatus and Executor.GetResult *)

ReaderFree(r) == rd[r].pc \in {"idle", "done"}

\* GetStatus: one lookup under the read lock; the status or not-found.
GetStatus(r, id) ==
    /\ ReaderFree(r)
    /\ rd' = [rd EXCEPT ![r] =
                 [op |-> "GetStatus", id |-> id, pc |-> "done",
                  status |-> IF id \in jobs THEN job[id].Status ELSE "",
                  result |-> NilResult,
                  err |-> IF id \in jobs THEN NoError ELSE ErrNotFound]]
    /\ UNCHANGED <<jobs, job, jobQueue, nextID, subPc, wPc, wJob, wCtx, wRet,
                   syncPc, syncRet, agentRet, expired, taken>>

\* GetResult lines 172-178: the lookup; not-found returns at once.
GetResultLookup(r, id) ==
    /\ ReaderFree(r)
    /\ rd' = [rd EXCEPT ![r] =
                 [op |-> "GetResult", id |-> id,
                  pc |-> IF id \in jobs THEN "poll" ELSE "done",
                  status |-> "", result |-> NilResult,
                  err |-> IF id \in jobs THEN NoError ELSE ErrNotFound]]
    /\ UNCHANGED <<jobs, job, jobQueue, nextID, subPc, wPc, wJob, wCtx, wRet,
                   syncPc, syncRet, agentRet, expired, taken>>

\* Mutant of GetResultPoll: a running job already ends the poll loop.
GetResultPollEarly(r) ==
    /\ rd[r].pc = "poll"
    /\ rd' = [rd EXCEPT ![r].status = job[rd[r].id].Status,
                        ![r].pc = IF job[rd[r].id].Status # JobPending
                                  THEN "read" ELSE "poll"]
    /\ UNCHANGED <<jobs, job, jobQueue, nextID, subPc, wPc, wJob, wCtx, wRet,
                   syncPc, syncRet, agentRet, expired, taken>>

\* GetResult lines 182-184: one round of the poll loop reads job.Status under
\* the read lock; a status that is not terminal sleeps and polls again.
GetResultPoll(r) ==
    /\ rd[r].pc = "poll"
    /\ rd' = [rd EXCEPT ![r].status = job[rd[r].id].Status,
                        ![r].pc = IF IsTerminal(job[rd[r].id].Status)
                                  THEN "read" ELSE "poll"]
    /\ UNCHANGED <<jobs, job, jobQueue, nextID, subPc, wPc, wJob, wCtx, wRet,
                   syncPc, syncRet, agentRet, expired, taken>>

\* GetResult lines 186-191: after a terminal status, job.Result and job.Error
\* are read without the lock and returned.
GetResultReturn(r) ==
    /\ rd[r].pc = "read"
    /\ rd' = [rd EXCEPT ![r].result = job[rd[r].id].Result,
                        ![r].err = IF rd[r].status = JobCompleted
                                   THEN NoError ELSE job[rd[r].id].Error,
                        ![r].pc = "done"]
    /\ UNCHANGED <<jobs, job, jobQueue, nextID, subPc, wPc, wJob, wCtx, wRet,
                   syncPc, syncRet, agentRet, expired, taken>>

-----------------------------------------------------------------------------
(* Executor.ExecuteSync *)

\* Mutant of ExecuteSyncCall: the synchronous path registers a job as Submit
\* does.
ExecuteSyncCallRegisters ==
    /\ syncPc = "idle"
    /\ nextID <= MaxJobs
    /\ syncPc' = "running"
    /\ syncRet' = NoRet
    /\ jobs' = jobs \cup {nextID}
    /\ job' = [job EXCEPT ![nextID] =
                   [Status |-> JobPending, Result |-> NilResult,
                    Error |-> NoError, Config |-> NilConfig]]
    /\ nextID' = nextID + 1
    /\ UNCHANGED <<jobQueue, subPc, wPc, wJob, wCtx, wRet, rd, agentRet,
                   expired, taken>>

\* Lines 237-247: the task is built on the caller; nothing shared is touched.
ExecuteSyncCall ==
    /\ syncPc = "idle"
    /\ syncPc' = "running"
    /\ syncRet' = NoRet
    /\ UNCHANGED <<jobs, job, jobQueue, nextID, subPc, wPc, wJob, wCtx, wRet,
                   rd, agentRet, expired, taken>>

\* Line 249: e.agent.Execute(ctx, task) returns to the caller.
ExecuteSyncReturn ==
    /\ syncPc = "running"
    /\ \E out \in AgentOutcomes(Background) : syncRet' = out
    /\ syncPc' = "idle"
    /\ UNCHANGED <<jobs, job, jobQueue, nextID, subPc, wPc, wJob, wCtx, wRet,
                   rd, agentRet, expired, taken>>

-----------------------------------------------------------------------------
(* LLMAgent: strings, values and collaborators *)

\* Texts matched by substring are sequences of characters.
UpperCase == <<"A", "B", "C", "D", "E", "F", "G", "H", "I", "J", "K", "L", "M",
               "N", "O", "P", "Q", "R", "S", "T", "U", "V", "W", "X", "Y", "Z">>
LowerCase == <<"a", "b", "c", "d", "e", "f", "g", "h", "i", "j", "k", "l", "m",
               "n", "o", "p", "q", "r", "s", "t", "u", "v", "w", "x", "y", "z">>

\* strings.ToLower
ToLower(s) ==
    [i \in 1..Len(s) |->
        IF \E k \in 1..Len(UpperCase) : UpperCase[k] = s[i]
        THEN LowerCase[CHOOSE k \in 1..Len(UpperCase) : UpperCase[k] = s[i]]
        ELSE s[i]]

\* strings.Contains
Contains(s, sub) ==
    \E i \in 0..(Len(s) - Len(sub)) : SubSeq(s, i + 1, i + Len(sub)) = sub

DelegatePhrase == <<"d", "e", "l", "e", "g", "a", "t", "e", " ", "t", "o">>
DelegatingTo == <<"D", "e", "l", "e", "g", "a", "t", "i", "n", "g", " ", "t", "o", " ">>

\* Names of agents that can be configured as sub-agents.
NameBo == <<"B", "o">>
NameBob == <<"B", "o", "b">>

\* What the model may answer as content.
ContentAnswer == <<"4">>
ContentDelegateBob == <<"D", "e", "l", "e", "g", "a", "t", "e", " ", "t", "o", " ", "b", "o", "b">>
ContentDelegateAmy == <<"d", "e", "l", "e", "g", "a", "t", "e", " ", "t", "o", " ", "a", "m", "y">>
ContentAskBob == <<"a", "s", "k", " ", "B", "o", "b">>
Contents == {ContentAnswer, ContentDelegateBob, ContentDelegateAmy, ContentAskBob}

\* The sub-agent lists an LLMAgent is configured with.
SubAgentLists == {<<>>, <<NameBob>>, <<NameBo, NameBob>>}

\* a.name
AgentName == "assistant"

ErrModel == "model unavailable"
ErrTool == "tool failed"
ErrSub == "sub-agent error"
ErrMaxIterations == "max iterations reached"

\* interface{} values a tool returns: nil, a map[string]interface{}, or
\* another value.
EmptyMap == [k \in {} |-> 0]
NilValue == [kind |-> "nil", map |-> EmptyMap, raw |-> 0]
MapValue(m) == [kind |-> "map", map |-> m, raw |-> 0]
RawValue(v) == [kind |-> "raw", map |-> EmptyMap, raw |-> v]

\* a.tools: the names of the configured tools, in order.
Tools == <<"calc", "fetch">>

\* What Tool.Execute may return, as (result, error), for each configured tool.
ToolOutcomes(name) ==
    IF name = "calc"
    THEN {<<MapValue("result" :> 4), NoError>>, <<NilValue, ErrTool>>}
    ELSE {<<RawValue(7), NoError>>, <<MapValue("page_content" :> 7), NoError>>,
          <<NilValue, NoError>>, <<NilValue, ErrTool>>}

\* A ToolCall as the model requests it.
Request(name) == [Name |-> name, Result |-> NilValue, Error |-> NoError]

\* The tool-call lists a model response may carry; "lookup" is no tool of the
\* agent.
ToolRequests ==
    {<<Request("calc")>>,
     <<Request("lookup"), Request("calc")>>,
     <<Request("fetch"), Request("calc")>>,
     <<Request("fetch"), Request("lookup")>>}

NoResponse == [Content |-> <<>>, ToolCalls |-> <<>>]

\* The task states Execute may start from.
InitialStates == {EmptyMap, "result" :> 0}

\* findTool: the index in a.tools of the first tool with the name, 0 for nil.
FindTool(name) ==
    IF \E i \in 1..Len(Tools) : Tools[i] = name
    THEN CHOOSE i \in 1..Len(Tools) :
            Tools[i] = name /\ \A k \in 1..(i - 1) : Tools[k] # name
    ELSE 0

\* Mutant of UpdateState: a mapping is not merged entry by entry, the key of
\* the tool's name receives the raw value.
UpdateStateUnderName(state, name, val, err) ==
    IF err = NoError /\ val.kind # "nil"
    THEN [k \in DOMAIN state \cup {name \o "_result"} |->
             IF k = name \o "_result" THEN val.raw ELSE state[k]]
    ELSE state

\* Lines 135-144: the task state after a tool call returned (val, err).
UpdateState(state, name, val, err) ==
    IF err = NoError /\ val.kind # "nil"
    THEN IF val.kind = "map"
         THEN [k \in DOMAIN state \cup DOMAIN val.map |->
                  IF k \in DOMAIN val.map THEN val.map[k] ELSE state[k]]
         ELSE [k \in DOMAIN state \cup {name \o "_result"} |->
                  IF k = name \o "_result" THEN val.raw ELSE state[k]]
    ELSE state

\* extractArtifacts: the state keys with prefix artifact_ or suffix _content
\* or _output; of the keys of this model, page_content.
ArtifactKeys == {"page_content"}
ExtractArtifacts(state) == DOMAIN state \cap ArtifactKeys

\* Lines 166-168: the index of the first sub-agent whose lower-cased name the
\* lower-cased content contains, provided the content contains the
\* delegation phrase; 0 when there is no delegation.
DelegateTarget(content) ==
    IF /\ Contains(ToLower(content), DelegatePhrase)
       /\ \E i \in 1..Len(subAgents) :
              Contains(ToLower(content), ToLower(subAgents[i]))
    THEN CHOOSE i \in 1..Len(subAgents) :
            /\ Contains(ToLower(content), ToLower(subAgents[i]))
            /\ \A k \in 1..(i - 1) :
                   ~Contains(ToLower(content), ToLower(subAgents[k]))
    ELSE 0

\* NewLLMAgent: a MaxTurns of 0 means DefaultMaxTurns.
DefaultMaxTurns == 10
NewLLMAgent(cfgMaxTurns) ==
    IF cfgMaxTurns = 0 THEN DefaultMaxTurns ELSE cfgMaxTurns

\* An ExecutionStep as line 90 creates it.
NewStep == [AgentName |-> AgentName, Action |-> "", Output |-> <<>>,
            Error |-> "", ToolCalls |-> <<>>, StateDelta |-> EmptyMap]

\* The Result as lines 58-63 create it.
NewResult == [Success |-> FALSE, Output |-> <<>>, Error |-> "",
              Steps |-> <<>>, Artifacts |-> {}]

\* What a sub-agent's Execute may return, as (result, error).
SubOutput == <<"s", "u", "b">>
SubStep(name, err) == [AgentName |-> name, Action |-> "reasoning",
                       Output |-> IF err = "" THEN SubOutput ELSE <<>>,
                       Error |-> err, ToolCalls |-> <<>>,
                       StateDelta |-> EmptyMap]
SubOutcomes(name) ==
    {<<[Success |-> TRUE, Output |-> SubOutput, Error |-> "",
        Steps |-> <<SubStep(name, "")>>, Artifacts |-> {"sub_output"}],
       NoError>>,
     <<[Success |-> FALSE, Output |-> <<>>, Error |-> ErrSub,
        Steps |-> <<SubStep(name, ErrSub)>>, Artifacts |-> {}],
       ErrSub>>}

Call(kind, name) == [kind |-> kind, name |-> name]

-----------------------------------------------------------------------------
(* LLMAgent.Execute *)

\* Before Execute is called; in the executor's specifications the loop's
\* variables keep these values.
IdleLoop ==
    /\ lp = "ready"
    /\ turn = 0
    /\ resp = NoResponse
    /\ tcIdx = 0
    /\ step = NewStep
    /\ result = NewResult
    /\ retErr = NoError
    /\ calls = <<>>

\* An agent from NewLLMAgent with one of the given MaxTurns, and a task.
InitLoop(cfgTurns) ==
    /\ \E c \in cfgTurns : maxTurns = NewLLMAgent(c)
    /\ subAgents \in SubAgentLists
    /\ taskState \in InitialStates
    /\ IdleLoop

\* Lines 58-88: the Result, the prompt and the history; the loop starts.
ExecuteBegin ==
    /\ lp = "ready"
    /\ result' = NewResult
    /\ turn' = 0
    /\ lp' = "turn"
    /\ UNCHANGED <<maxTurns, subAgents, taskState, resp, tcIdx, step, retErr,
                   calls>>

\* Mutant of ModelFails: the failed model call is recorded and the loop goes
\* on to the next turn.
ModelFailsRetries ==
    /\ lp = "turn"
    /\ turn < maxTurns
    /\ calls' = Append(calls, Call("model", ""))
    /\ step' = [NewStep EXCEPT !.Error = ErrModel]
    /\ result' = [result EXCEPT
                     !.Steps = Append(@, [NewStep EXCEPT !.Error = ErrModel]),
                     !.Error = "LLM error: " \o ErrModel]
    /\ turn' = turn + 1
    /\ UNCHANGED <<maxTurns, subAgents, taskState, lp, resp, tcIdx, retErr>>

\* Lines 88-106: the model call of a turn fails; the step carries the error
\* and Execute returns the model's error.
ModelFails ==
    /\ lp = "turn"
    /\ turn < maxTurns
    /\ calls' = Append(calls, Call("model", ""))
    /\ step' = [NewStep EXCEPT !.Error = ErrModel]
    /\ result' = [result EXCEPT
                     !.Steps = Append(@, [NewStep EXCEPT !.Error = ErrModel]),
                     !.Error = "LLM error: " \o ErrModel]
    /\ retErr' = ErrModel
    /\ lp' = "done"
    /\ UNCHANGED <<maxTurns, subAgents, taskState, turn, resp, tcIdx>>

\* Lines 88-117: the model answers with tool calls.
ModelRequestsTools(tcs) ==
    /\ lp = "turn"
    /\ turn < maxTurns
    /\ calls' = Append(calls, Call("model", ""))
    /\ resp' = [Content |-> <<>>, ToolCalls |-> tcs]
    /\ step' = [NewStep EXCEPT !.Action = "tool_execution", !.Output = <<>>]
    /\ tcIdx' = 1
    /\ lp' = "tools"
    /\ UNCHANGED <<maxTurns, subAgents, taskState, turn, result, retErr>>

\* Lines 119-126: the tool of call i is not one of a.tools.
ToolNotFound ==
    /\ lp = "tools"
    /\ tcIdx <= Len(resp.ToolCalls)
    /\ FindTool(resp.ToolCalls[tcIdx].Name) = 0
    /\ resp' = [resp EXCEPT !.ToolCalls[tcIdx].Error =
                   "tool not found: " \o resp.ToolCalls[tcIdx].Name]
    /\ tcIdx' = tcIdx + 1
    /\ UNCHANGED <<maxTurns, subAgents, taskState, lp, turn, step, result,
                   retErr, calls>>

\* Lines 119-147: the tool of call i runs; its result or error is recorded
\* in the call, the task state is updated and the call joins the step.
ToolExecute ==
    /\ lp = "tools"
    /\ tcIdx <= Len(resp.ToolCalls)
    /\ FindTool(resp.ToolCalls[tcIdx].Name) # 0
    /\ \E out \in ToolOutcomes(Tools[FindTool(resp.ToolCalls[tcIdx].Name)]) :
          LET tc == [resp.ToolCalls[tcIdx] EXCEPT !.Result = out[1],
                                                  !.Error = out[2]]
          IN /\ resp' = [resp EXCEPT !.ToolCalls[tcIdx] = tc]
             /\ taskState' = UpdateState(taskState, tc.Name, out[1], out[2])
             /\ step' = [step EXCEPT !.ToolCalls = Append(@, tc)]
    /\ calls' = Append(calls, Call("tool", resp.ToolCalls[tcIdx].Name))
    /\ tcIdx' = tcIdx + 1
    /\ UNCHANGED <<maxTurns, subAgents, lp, turn, result, retErr>>

\* Mutant of ToolsDone: the step of a tool turn is not added to the trail.
ToolsDoneDropsStep ==
    /\ lp = "tools"
    /\ tcIdx > Len(resp.ToolCalls)
    /\ turn' = turn + 1
    /\ lp' = "turn"
    /\ UNCHANGED <<maxTurns, subAgents, taskState, resp, tcIdx, step, result,
                   retErr, calls>>

\* Lines 148-162: after the last call the step joins the trail and the next
\* turn begins.
ToolsDone ==
    /\ lp = "tools"
    /\ tcIdx > Len(resp.ToolCalls)
    /\ result' = [result EXCEPT !.Steps = Append(@, step)]
    /\ turn' = turn + 1
    /\ lp' = "turn"
    /\ UNCHANGED <<maxTurns, subAgents, taskState, resp, tcIdx, step, retErr,
                   calls>>

\* Lines 88-113 and 165-175: the model answers without tool calls, with the
\* delegation phrase and the name of a sub-agent; the delegate step joins the
\* trail and the first such sub-agent is executed with the task.
Delegate(content) ==
    /\ lp = "turn"
    /\ turn < maxTurns
    /\ DelegateTarget(content) # 0
    /\ resp' = [Content |-> content, ToolCalls |-> <<>>]
    /\ LET st == [NewStep EXCEPT
                     !.Action = "delegate",
                     !.Output = DelegatingTo \o subAgents[DelegateTarget(content)]]
       IN /\ step' = st
          /\ result' = [result EXCEPT !.Steps = Append(@, st)]
    /\ calls' = calls \o <<Call("model", ""),
                           Call("sub", subAgents[DelegateTarget(content)])>>
    /\ lp' = "sub"
    /\ UNCHANGED <<maxTurns, subAgents, taskState, turn, tcIdx, retErr>>

\* Mutant of SubAgentReturn: after a successful sub-agent the loop goes on
\* with the next turn.
SubAgentReturnGoesOn ==
    /\ lp = "sub"
    /\ \E out \in SubOutcomes(subAgents[DelegateTarget(resp.Content)]) :
          IF out[2] # NoError
          THEN /\ result' = [result EXCEPT
                                !.Error = "sub-agent failed: " \o out[2]]
               /\ retErr' = out[2]
               /\ lp' = "done"
               /\ UNCHANGED turn
          ELSE /\ result' = [result EXCEPT
                                !.Steps = @ \o out[1].Steps,
                                !.Output = out[1].Output,
                                !.Artifacts = out[1].Artifacts,
                                !.Success = out[1].Success]
               /\ retErr' = NoError
               /\ lp' = "turn"
               /\ turn' = turn + 1
    /\ UNCHANGED <<maxTurns, subAgents, taskState, resp, tcIdx, step, calls>>

\* Lines 175-186: the sub-agent returns; its failure is returned, its success
\* is merged into the Result.
SubAgentReturn ==
    /\ lp = "sub"
    /\ \E out \in SubOutcomes(subAgents[DelegateTarget(resp.Content)]) :
          IF out[2] # NoError
          THEN /\ result' = [result EXCEPT
                                !.Error = "sub-agent failed: " \o out[2]]
               /\ retErr' = out[2]
          ELSE /\ result' = [result EXCEPT
                                !.Steps = @ \o out[1].Steps,
                                !.Output = out[1].Output,
                                !.Artifacts = out[1].Artifacts,
                                !.Success = out[1].Success]
               /\ retErr' = NoError
    /\ lp' = "done"
    /\ UNCHANGED <<maxTurns, subAgents, taskState, turn, resp, tcIdx, step,
                   calls>>

\* Mutant of Complete: the final answer is returned without the success flag.
CompleteWithoutSuccess(content) ==
    /\ lp = "turn"
    /\ turn < maxTurns
    /\ DelegateTarget(content) = 0
    /\ resp' = [Content |-> content, ToolCalls |-> <<>>]
    /\ LET st == [NewStep EXCEPT !.Action = "reasoning", !.Output = content]
       IN /\ step' = st
          /\ result' = [result EXCEPT
                           !.Steps = Append(@, st),
                           !.Output = content,
                           !.Artifacts = ExtractArtifacts(taskState)]
    /\ retErr' = NoError
    /\ calls' = Append(calls, Call("model", ""))
    /\ lp' = "done"
    /\ UNCHANGED <<maxTurns, subAgents, taskState, turn, tcIdx>>

\* Mutant of Complete: the final step records the task's state as its state
\* delta.
CompleteRecordsDelta(content) ==
    /\ lp = "turn"
    /\ turn < maxTurns
    /\ DelegateTarget(content) = 0
    /\ resp' = [Content |-> content, ToolCalls |-> <<>>]
    /\ LET st == [NewStep EXCEPT !.Action = "reasoning", !.Output = content,
                                 !.StateDelta = taskState]
       IN /\ step' = st
          /\ result' = [result EXCEPT
                           !.Steps = Append(@, st),
                           !.Output = content,
                           !.Success = TRUE,
                           !.Artifacts = ExtractArtifacts(taskState)]
    /\ retErr' = NoError
    /\ calls' = Append(calls, Call("model", ""))
    /\ lp' = "done"
    /\ UNCHANGED <<maxTurns, subAgents, taskState, turn, tcIdx>>

\* Lines 88-113 and 191-203: the model answers without tool calls and without
\* delegation; the task is complete.
Complete(content) ==
    /\ lp = "turn"
    /\ turn < maxTurns
    /\ DelegateTarget(content) = 0
    /\ resp' = [Content |-> content, ToolCalls |-> <<>>]
    /\ LET st == [NewStep EXCEPT !.Action = "reasoning", !.Output = content]
       IN /\ step' = st
          /\ result' = [result EXCEPT
                           !.Steps = Append(@, st),
                           !.Output = content,
                           !.Success = TRUE,
                           !.Artifacts = ExtractArtifacts(taskState)]
    /\ retErr' = NoError
    /\ calls' = Append(calls, Call("model", ""))
    /\ lp' = "done"
    /\ UNCHANGED <<maxTurns, subAgents, taskState, turn, tcIdx>>

\* Mutant of Exhausted: the exhausted loop returns its Result with a nil
\* error.
ExhaustedWithoutError ==
    /\ lp = "turn"
    /\ ~(turn < maxTurns)
    /\ result' = [result EXCEPT !.Error = ErrMaxIterations]
    /\ retErr' = NoError
    /\ lp' = "done"
    /\ UNCHANGED <<maxTurns, subAgents, taskState, turn, resp, tcIdx, step,
                   calls>>

\* Lines 88 and 206-207: the loop ends without a return.
Exhausted ==
    /\ lp = "turn"
    /\ ~(turn < maxTurns)
    /\ result' = [result EXCEPT !.Error = ErrMaxIterations]
    /\ retErr' = ErrMaxIterations
    /\ lp' = "done"
    /\ UNCHANGED <<maxTurns, subAgents, taskState, turn, resp, tcIdx, step,
                   calls>>

\* The reasoning loop with the given tool-call lists and contents as the
\* model's possible answers.
NextLoop(requests, contents) ==
    \/ ExecuteBegin
    \/ ModelFails
    \/ \E tcs \in requests : ModelRequestsTools(tcs)
    \/ ToolNotFound
    \/ ToolExecute
    \/ ToolsDone
    \/ \E c \in contents : Delegate(c)
    \/ SubAgentReturn
    \/ \E c \in contents : Complete(c)
    \/ Exhausted

-----------------------------------------------------------------------------
(* The composite agents: values *)

\* The largest number of children a composite agent is built with.
MaxChildren == 2

\* The names of the children; two children may carry the same name.
ChildNames == {"web", "db", "cache"}
\* The lists a.agents (a.stages) a composite may be built with.
AgentLists == UNION {[1..n -> ChildNames] : n \in 0..MaxChildren}

ErrChild == "child failed"

\* A Result.Output (interface{}): nil, a string, a number, or the map of
\* outputs a ParallelAgent returns.
OutNil == [kind |-> "nil", str |-> "", num |-> 0, map |-> EmptyMap]
OutStr(s) == [kind |-> "string", str |-> s, num |-> 0, map |-> EmptyMap]
OutNum(n) == [kind |-> "num", str |-> "", num |-> n, map |-> EmptyMap]
OutMap(m) == [kind |-> "map", str |-> "", num |-> 0, map |-> m]

\* fmt.Sprint of an output that is nil, a number or a string.
Sprint(out) ==
    CASE out.kind = "nil" -> "<nil>"
      [] out.kind = "num" -> ToString(out.num)
      [] out.kind = "string" -> out.str

\* Lines 197-201: a string output as it is, any other output through
\* fmt.Sprint.
Coerce(out) == IF out.kind = "string" THEN out.str ELSE Sprint(out)

\* The Result as lines 31-35, 90-94 and 174-178 create it.
NewCompositeResult == [Success |-> FALSE, Output |-> OutNil, Error |-> "",
                       Steps |-> <<>>, Artifacts |-> <<>>]

\* An ExecutionStep of a child, with its state delta.
ChildStep(name, action, err, delta) ==
    [AgentName |-> name, Action |-> action, Output |-> <<>>, Error |-> err,
     ToolCalls |-> <<>>, StateDelta |-> delta]

\* What the Execute of child i may return for a task with the given input, as
\* (result, error): a string output made from the input, with a delta on the
\* one step; a number, with a delta on each of two steps; a nil output and no
\* step; a failure after one step.
ChildOutcomes(i, input) ==
    {<<[Success |-> TRUE, Output |-> OutStr(input \o "/" \o agents[i]),
        Error |-> "",
        Steps |-> <<ChildStep(agents[i], "reasoning", "", "k" :> i)>>,
        Artifacts |-> <<agents[i]>>],
       NoError>>,
     <<[Success |-> TRUE, Output |-> OutNum(i), Error |-> "",
        Steps |-> <<ChildStep(agents[i], "tool_execution", "", "j" :> i),
                    ChildStep(agents[i], "reasoning", "", "d" :> i)>>,
        Artifacts |-> <<>>],
       NoError>>,
     <<[Success |-> TRUE, Output |-> OutNil, Error |-> "",
        Steps |-> <<>>, Artifacts |-> <<>>],
       NoError>>,
     <<[Success |-> FALSE, Output |-> OutNil, Error |-> ErrChild,
        Steps |-> <<ChildStep(agents[i], "reasoning", ErrChild, EmptyMap)>>,
        Artifacts |-> <<>>],
       ErrChild>>}

\* The zero value of agentResult; subResult and err before the child returns.
NilAgentResult == [result |-> NewCompositeResult, err |-> NoError]

\* A child before its Execute is called.
IdleChild == [pc |-> "idle", own |-> FALSE, State |-> EmptyMap, Input |-> "",
              seen |-> EmptyMap, wrote |-> FALSE, starts |-> 0, rank |-> 0,
              ret |-> <<NewCompositeResult, NoError>>]

\* History: the place child i takes in the order the children return, when
\* it returns now.
NextRank == Cardinality({j \in 1..Len(agents) : child[j].pc = "done"}) + 1

\* The task states and the input a composite may be executed with.
CompositeStates == {EmptyMap, ("k" :> 0) @@ ("w" :> 0)}
CompositeInputs == {"in"}

\* Mutant of Overlay: a key the state has keeps its value.
OverlayKeepsOld(st, delta) ==
    [k \in DOMAIN st \cup DOMAIN delta |->
        IF k \in DOMAIN st THEN st[k] ELSE delta[k]]

\* for k, v := range delta { st[k] = v }
Overlay(st, delta) ==
    [k \in DOMAIN st \cup DOMAIN delta |->
        IF k \in DOMAIN delta THEN delta[k] ELSE st[k]]

\* Lines 139-141: the state delta of the last step of a child's result.
LastDelta(r) ==
    IF Len(r.Steps) > 0 THEN r.Steps[Len(r.Steps)].StateDelta ELSE EmptyMap

\* The State map child i's task points to: its own copy or the caller's map.
StateOf(i) == IF child[i].own THEN child[i].State ELSE task.State

-----------------------------------------------------------------------------
(* The children of a composite *)

\* No composite is executing; in the other specifications the composite's
\* variables keep these values.
InitIdleComposite ==
    /\ ckind = "none"
    /\ agents = <<>>
    /\ task = [Input |-> "", State |-> EmptyMap]
    /\ task0 = task
    /\ cpc = "ready"
    /\ cidx = 0
    /\ currentInput = ""
    /\ child = <<>>
    /\ results = <<>>
    /\ compResult = NewCompositeResult
    /\ compErr = NoError

\* A composite of one of the given kinds, its children and the task.
InitComposite(kinds) ==
    /\ ckind \in kinds
    /\ agents \in AgentLists
    /\ task \in [Input : CompositeInputs, State : CompositeStates]
    /\ task0 = task
    /\ cpc = "ready"
    /\ cidx = 0
    /\ currentInput = ""
    /\ child = [i \in 1..Len(agents) |-> IdleChild]
    /\ results = [i \in 1..Len(agents) |-> NilAgentResult]
    /\ compResult = NewCompositeResult
    /\ compErr = NoError

\* A child's Execute writes an entry to the State of the task it was given
\* (as LLMAgent.Execute does with a tool's result, llm_agent.go 135-144).
AgentWrites(i) ==
    /\ child[i].pc = "running"
    /\ ~child[i].wrote
    /\ IF child[i].own
       THEN /\ child' = [child EXCEPT ![i].State = Overlay(@, "w" :> i),
                                      ![i].wrote = TRUE]
            /\ UNCHANGED task
       ELSE /\ task' = [task EXCEPT !.State = Overlay(@, "w" :> i)]
            /\ child' = [child EXCEPT ![i].wrote = TRUE]
    /\ UNCHANGED <<ckind, agents, task0, cpc, cidx, currentInput, results,
                   compResult, compErr>>

\* The Execute of the child a Sequential or Pipeline agent called returns
\* (lines 40 and 187).
AgentReturns(i) ==
    /\ cpc = "call"
    /\ i = cidx
    /\ child[i].pc = "running"
    /\ \E out \in ChildOutcomes(i, child[i].Input) :
          /\ results' = [results EXCEPT
                            ![i] = [result |-> out[1], err |-> out[2]]]
          /\ child' = [child EXCEPT ![i].pc = "done", ![i].rank = NextRank,
                                    ![i].ret = out]
    /\ UNCHANGED <<ckind, agents, task, task0, cpc, cidx, currentInput,
                   compResult, compErr>>

-----------------------------------------------------------------------------
(* SequentialAgent.Execute *)

\* Lines 31-37: the Result; the loop over a.agents starts.
SeqBegin ==
    /\ ckind = "sequential"
    /\ cpc = "ready"
    /\ compResult' = NewCompositeResult
    /\ cidx' = 1
    /\ cpc' = "loop"
    /\ UNCHANGED <<ckind, agents, task, task0, currentInput, child, results,
                   compErr>>

\* Mutant of SeqCall: the child is called with a copy of the task state.
SeqCallWithCopy ==
    /\ ckind = "sequential"
    /\ cpc = "loop"
    /\ cidx <= Len(agents)
    /\ child' = [child EXCEPT ![cidx] =
                    [pc |-> "running", own |-> TRUE, State |-> task0.State,
                     Input |-> task.Input, seen |-> task0.State,
                     wrote |-> FALSE, starts |-> @.starts + 1,
                     rank |-> 0, ret |-> @.ret]]
    /\ cpc' = "call"
    /\ UNCHANGED <<ckind, agents, task, task0, cidx, currentInput, results,
                   compResult, compErr>>

\* Lines 37-40: the next child is called with the task itself.
SeqCall ==
    /\ ckind = "sequential"
    /\ cpc = "loop"
    /\ cidx <= Len(agents)
    /\ child' = [child EXCEPT ![cidx] =
                    [pc |-> "running", own |-> FALSE, State |-> EmptyMap,
                     Input |-> task.Input, seen |-> task.State,
                     wrote |-> FALSE, starts |-> @.starts + 1,
                     rank |-> 0, ret |-> @.ret]]
    /\ cpc' = "call"
    /\ UNCHANGED <<ckind, agents, task, task0, cidx, currentInput, results,
                   compResult, compErr>>

\* Mutant of SeqAfter: a child's error is recorded and the loop goes on.
SeqAfterGoesOn ==
    /\ ckind = "sequential"
    /\ cpc = "call"
    /\ child[cidx].pc = "done"
    /\ LET r == results[cidx].result
           err == results[cidx].err
       IN IF err # NoError
          THEN compResult' = [compResult EXCEPT
                   !.Steps = Append(@, ChildStep(agents[cidx], "execute",
                                                 err, EmptyMap)),
                   !.Error = "agent " \o agents[cidx] \o " failed: " \o err]
          ELSE compResult' = [compResult EXCEPT
                   !.Steps = @ \o r.Steps,
                   !.Output = r.Output,
                   !.Artifacts = @ \o r.Artifacts]
    /\ cidx' = cidx + 1
    /\ cpc' = "loop"
    /\ UNCHANGED <<ckind, agents, task, task0, currentInput, child, results,
                   compErr>>

\* Lines 42-63: after the child returned; its error ends Execute with one
\* "execute" step carrying it, its success is merged into the Result.
SeqAfter ==
    /\ ckind = "sequential"
    /\ cpc = "call"
    /\ child[cidx].pc = "done"
    /\ LET r == results[cidx].result
           err == results[cidx].err
       IN IF err # NoError
          THEN /\ compResult' = [compResult EXCEPT
                      !.Steps = Append(@, ChildStep(agents[cidx], "execute",
                                                    err, EmptyMap)),
                      !.Error = "agent " \o agents[cidx] \o " failed: " \o err]
               /\ compErr' = err
               /\ cpc' = "done"
               /\ UNCHANGED cidx
          ELSE /\ compResult' = [compResult EXCEPT
                      !.Steps = @ \o r.Steps,
                      !.Output = r.Output,
                      !.Artifacts = @ \o r.Artifacts]
               /\ cidx' = cidx + 1
               /\ cpc' = "loop"
               /\ UNCHANGED compErr
    /\ UNCHANGED <<ckind, agents, task, task0, currentInput, child, results>>

\* Lines 65-66: every child succeeded.
SeqEnd ==
    /\ ckind = "sequential"
    /\ cpc = "loop"
    /\ cidx > Len(agents)
    /\ compResult' = [compResult EXCEPT !.Success = TRUE]
    /\ compErr' = NoError
    /\ cpc' = "done"
    /\ UNCHANGED <<ckind, agents, task, task0, cidx, currentInput, child,
                   results>>


-----------------------------------------------------------------------------
(* PipelineAgent.Execute *)

\* Lines 174-183: the Result and currentInput; the loop over a.stages starts.
PipeBegin ==
    /\ ckind = "pipeline"
    /\ cpc = "ready"
    /\ compResult' = NewCompositeResult
    /\ currentInput' = task.Input
    /\ cidx' = 1
    /\ cpc' = "loop"
    /\ UNCHANGED <<ckind, agents, task, task0, child, results, compErr>>

\* Lines 183-187: the task's input becomes currentInput and the next stage is
\* called with the task itself.
PipeCall ==
    /\ ckind = "pipeline"
    /\ cpc = "loop"
    /\ cidx <= Len(agents)
    /\ task' = [task EXCEPT !.Input = currentInput]
    /\ child' = [child EXCEPT ![cidx] =
                    [pc |-> "running", own |-> FALSE, State |-> EmptyMap,
                     Input |-> currentInput, seen |-> task.State,
                     wrote |-> FALSE, starts |-> @.starts + 1,
                     rank |-> 0, ret |-> @.ret]]
    /\ cpc' = "call"
    /\ UNCHANGED <<ckind, agents, task0, cidx, currentInput, results,
                   compResult, compErr>>

\* Mutant of PipeAfter: the stage's output does not become the next input.
PipeAfterKeepsInput ==
    /\ ckind = "pipeline"
    /\ cpc = "call"
    /\ child[cidx].pc = "done"
    /\ LET r == results[cidx].result
           err == results[cidx].err
       IN IF err # NoError
          THEN /\ compResult' = [compResult EXCEPT
                      !.Error = "stage " \o agents[cidx] \o " failed: " \o err]
               /\ compErr' = err
               /\ cpc' = "done"
               /\ UNCHANGED cidx
          ELSE /\ compResult' = [compResult EXCEPT
                      !.Steps = @ \o r.Steps,
                      !.Artifacts = @ \o r.Artifacts]
               /\ cidx' = cidx + 1
               /\ cpc' = "loop"
               /\ UNCHANGED compErr
    /\ UNCHANGED <<ckind, agents, task, task0, currentInput, child, results>>

\* Lines 187-202: after the stage returned; its error ends Execute, its
\* success is merged and its coerced output becomes currentInput.
PipeAfter ==
    /\ ckind = "pipeline"
    /\ cpc = "call"
    /\ child[cidx].pc = "done"
    /\ LET r == results[cidx].result
           err == results[cidx].err
       IN IF err # NoError
          THEN /\ compResult' = [compResult EXCEPT
                      !.Error = "stage " \o agents[cidx] \o " failed: " \o err]
               /\ compErr' = err
               /\ cpc' = "done"
               /\ UNCHANGED <<cidx, currentInput>>
          ELSE /\ compResult' = [compResult EXCEPT
                      !.Steps = @ \o r.Steps,
                      !.Artifacts = @ \o r.Artifacts]
               /\ currentInput' = Coerce(r.Output)
               /\ cidx' = cidx + 1
               /\ cpc' = "loop"
               /\ UNCHANGED compErr
    /\ UNCHANGED <<ckind, agents, task, task0, child, results>>

\* Lines 204-206: every stage succeeded; the output is currentInput.
PipeEnd ==
    /\ ckind = "pipeline"
    /\ cpc = "loop"
    /\ cidx > Len(agents)
    /\ compResult' = [compResult EXCEPT !.Output = OutStr(currentInput),
                                        !.Success = TRUE]
    /\ compErr' = NoError
    /\ cpc' = "done"
    /\ UNCHANGED <<ckind, agents, task, task0, cidx, currentInput, child,
                   results>>


-----------------------------------------------------------------------------
(* ParallelAgent.Execute *)

\* Lines 90-119: the Result, the results slice, and one goroutine per child.
ParSpawn ==
    /\ ckind = "parallel"
    /\ cpc = "ready"
    /\ compResult' = NewCompositeResult
    /\ results' = [i \in 1..Len(agents) |-> NilAgentResult]
    /\ child' = [i \in 1..Len(agents) |->
                    [child[i] EXCEPT !.pc = "spawned", !.starts = @ + 1]]
    /\ cpc' = "wait"
    /\ UNCHANGED <<ckind, agents, task, task0, cidx, currentInput, compErr>>

\* Mutant of ParGoCopy: the goroutine hands the caller's task to the child.
ParGoAliases(i) ==
    /\ ckind = "parallel"
    /\ child[i].pc = "spawned"
    /\ child' = [child EXCEPT ![i].pc = "running",
                              ![i].own = FALSE,
                              ![i].Input = task.Input,
                              ![i].seen = task.State]
    /\ UNCHANGED <<ckind, agents, task, task0, cpc, cidx, currentInput,
                   results, compResult, compErr>>

\* Lines 110-116: the goroutine of child i copies the task, gives the copy a
\* State map of its own with the entries of task.State, and calls the child.
ParGoCopy(i) ==
    /\ ckind = "parallel"
    /\ child[i].pc = "spawned"
    /\ child' = [child EXCEPT ![i].pc = "running",
                              ![i].own = TRUE,
                              ![i].State = task.State,
                              ![i].Input = task.Input,
                              ![i].seen = task.State]
    /\ UNCHANGED <<ckind, agents, task, task0, cpc, cidx, currentInput,
                   results, compResult, compErr>>

\* Mutant of ParGoReturn: what the child returned goes to the first slot of
\* results that is still empty.
ParGoReturnAppends(i) ==
    /\ ckind = "parallel"
    /\ child[i].pc = "running"
    /\ \E out \in ChildOutcomes(i, child[i].Input) :
          LET free == CHOOSE s \in 1..Len(agents) :
                         /\ results[s] = NilAgentResult
                         /\ \A t \in 1..(s - 1) : results[t] # NilAgentResult
          IN /\ results' = [results EXCEPT
                               ![free] = [result |-> out[1], err |-> out[2]]]
             /\ child' = [child EXCEPT ![i].pc = "done", ![i].rank = NextRank,
                                       ![i].ret = out]
    /\ UNCHANGED <<ckind, agents, task, task0, cpc, cidx, currentInput,
                   compResult, compErr>>

\* Lines 116-118 and 107: the child's Execute returns, results[idx] receives
\* what it returned, and the goroutine is done.
ParGoReturn(i) ==
    /\ ckind = "parallel"
    /\ child[i].pc = "running"
    /\ \E out \in ChildOutcomes(i, child[i].Input) :
          /\ results' = [results EXCEPT
                            ![i] = [result |-> out[1], err |-> out[2]]]
          /\ child' = [child EXCEPT ![i].pc = "done", ![i].rank = NextRank,
                                    ![i].ret = out]
    /\ UNCHANGED <<ckind, agents, task, task0, cpc, cidx, currentInput,
                   compResult, compErr>>

RECURSIVE MergeResultsSkipsFailed(_, _, _, _)
\* Mutant of MergeResults: a failed child is left out and the merge goes on.
MergeResultsSkipsFailed(i, res, st, outputs) ==
    IF i > Len(agents)
    THEN [result |-> [res EXCEPT !.Output = OutMap(outputs),
                                 !.Success = TRUE],
          err |-> NoError, State |-> st]
    ELSE IF results[i].err # NoError
    THEN MergeResultsSkipsFailed(i + 1, res, st, outputs)
    ELSE LET r == results[i].result
         IN MergeResultsSkipsFailed(
                i + 1,
                [res EXCEPT !.Steps = @ \o r.Steps,
                            !.Artifacts = @ \o r.Artifacts],
                Overlay(st, LastDelta(r)),
                (agents[i] :> r.Output) @@ outputs)

RECURSIVE MergeResults(_, _, _, _)
\* Lines 124-149: the merge loop from index i on, with the Result, task.State
\* and outputs as the indices before i left them: the first failed child ends
\* it with the child's error; at the end the outputs become the Output.
MergeResults(i, res, st, outputs) ==
    IF i > Len(agents)
    THEN [result |-> [res EXCEPT !.Output = OutMap(outputs),
                                 !.Success = TRUE],
          err |-> NoError, State |-> st]
    ELSE IF results[i].err # NoError
    THEN [result |-> [res EXCEPT !.Error = "agent " \o agents[i]
                                           \o " failed: " \o results[i].err],
          err |-> results[i].err, State |-> st]
    ELSE LET r == results[i].result
         IN MergeResults(
                i + 1,
                [res EXCEPT !.Steps = @ \o r.Steps,
                            !.Artifacts = @ \o r.Artifacts],
                Overlay(st, LastDelta(r)),
                (agents[i] :> r.Output) @@ outputs)

\* Mutant of ParMerge: the merge does not wait for the goroutines.
ParMergeNoWait ==
    /\ ckind = "parallel"
    /\ cpc = "wait"
    /\ LET m == MergeResults(1, compResult, task.State, EmptyMap)
       IN /\ compResult' = m.result
          /\ compErr' = m.err
          /\ task' = [task EXCEPT !.State = m.State]
    /\ cpc' = "done"
    /\ UNCHANGED <<ckind, agents, task0, cidx, currentInput, child, results>>

\* Lines 121-149: wg.Wait returns once every goroutine is done; the results
\* are merged in index order and Execute returns.
ParMerge ==
    /\ ckind = "parallel"
    /\ cpc = "wait"
    /\ \A i \in 1..Len(agents) : child[i].pc = "done"
    /\ LET m == MergeResults(1, compResult, task.State, EmptyMap)
       IN /\ compResult' = m.result
          /\ compErr' = m.err
          /\ task' = [task EXCEPT !.State = m.State]
    /\ cpc' = "done"
    /\ UNCHANGED <<ckind, agents, task0, cidx, currentInput, child, results>>

-----------------------------------------------------------------------------
(* MapState *)

\* The goroutines that call the methods of one MapState, one call each.
Callers == {"c1", "c2", "c3"}

\* NewMapStateFrom: the entries the MapState is created with.
InitialData == ("a" :> 0) @@ ("c" :> 0)

\* The deltas given to Merge; they share their keys.
DeltaOne == ("a" :> 1) @@ ("b" :> 1)
DeltaTwo == ("a" :> 2) @@ ("b" :> 2)
Deltas == {DeltaOne, DeltaTwo}

\* A call of a method: its name and its arguments.
StateCall(name, key, value, delta) ==
    [name |-> name, key |-> key, value |-> value, delta |-> delta]
NoStateCall == StateCall("", "", 0, EmptyMap)

\* A caller before its call.
IdleCaller == [pc |-> "idle", call |-> NoStateCall, todo |-> {},
               ret |-> EmptyMap]

\* s.mu is free: no writer holds it and no reader does.
MuFree == mapState.mu.w = "" /\ mapState.mu.r = {}

\* No MapState is in use; in the other specifications its variables keep
\* these values.
InitIdleStore ==
    /\ mapState = [data |-> EmptyMap, mu |-> [w |-> "", r |-> {}]]
    /\ stateCalls = [c \in {} |-> IdleCaller]

\* Lines 20-26: a MapState with its initial entries, and its callers.
InitStore ==
    /\ mapState = [data |-> InitialData, mu |-> [w |-> "", r |-> {}]]
    /\ stateCalls = [c \in Callers |-> IdleCaller]

\* s.mu.RLock() of the call of a reading method.
RLock(c, call) ==
    /\ stateCalls[c].pc = "idle"
    /\ mapState.mu.w = ""
    /\ mapState' = [mapState EXCEPT !.mu.r = @ \cup {c}]
    /\ stateCalls' = [stateCalls EXCEPT ![c].pc = "in", ![c].call = call]

\* s.mu.Lock() of the call of a writing method.
Lock(c, call) ==
    /\ stateCalls[c].pc = "idle"
    /\ MuFree
    /\ mapState' = [mapState EXCEPT !.mu.w = c]
    /\ stateCalls' = [stateCalls EXCEPT ![c].pc = "in", ![c].call = call,
                                        ![c].todo = DOMAIN call.delta]

\* Lines 28-30: Get takes the read lock.
GetLock(c, key) == RLock(c, StateCall("Get", key, 0, EmptyMap))

\* Lines 31-32: Get reads the entry, returns it (the empty map for a key that
\* is absent) and releases the lock.
GetReturn(c) ==
    /\ stateCalls[c].pc = "in"
    /\ stateCalls[c].call.name = "Get"
    /\ LET k == stateCalls[c].call.key
       IN stateCalls' = [stateCalls EXCEPT
              ![c].pc = "done",
              ![c].ret = IF k \in DOMAIN mapState.data
                         THEN k :> mapState.data[k]
                         ELSE EmptyMap]
    /\ mapState' = [mapState EXCEPT !.mu.r = @ \ {c}]

\* Lines 47-49: Keys takes the read lock.
KeysLock(c) == RLock(c, StateCall("Keys", "", 0, EmptyMap))

\* Lines 50-54: Keys collects the keys, returns them and releases the lock.
KeysReturn(c) ==
    /\ stateCalls[c].pc = "in"
    /\ stateCalls[c].call.name = "Keys"
    /\ stateCalls' = [stateCalls EXCEPT
           ![c].pc = "done",
           ![c].ret = [k \in DOMAIN mapState.data |-> 0]]
    /\ mapState' = [mapState EXCEPT !.mu.r = @ \ {c}]

\* Lines 35-37: Set takes the lock.
SetLock(c, key, value) == Lock(c, StateCall("Set", key, value, EmptyMap))

\* Lines 38-39: Set writes the entry and releases the lock.
SetReturn(c) ==
    /\ stateCalls[c].pc = "in"
    /\ stateCalls[c].call.name = "Set"
    /\ LET k == stateCalls[c].call.key
       IN mapState' = [mapState EXCEPT
              !.data = [x \in DOMAIN @ \cup {k} |->
                           IF x = k THEN stateCalls[c].call.value ELSE @[x]],
              !.mu.w = ""]
    /\ stateCalls' = [stateCalls EXCEPT ![c].pc = "done"]

\* Lines 41-43: Delete takes the lock.
DeleteLock(c, key) == Lock(c, StateCall("Delete", key, 0, EmptyMap))

\* Lines 44-45: Delete removes the entry and releases the lock.
DeleteReturn(c) ==
    /\ stateCalls[c].pc = "in"
    /\ stateCalls[c].call.name = "Delete"
    /\ mapState' = [mapState EXCEPT
           !.data = [x \in DOMAIN @ \ {stateCalls[c].call.key} |-> @[x]],
           !.mu.w = ""]
    /\ stateCalls' = [stateCalls EXCEPT ![c].pc = "done"]

\* Mutant of MergeLock: Merge starts its loop without taking the lock.
MergeWithoutLock(c, delta) ==
    /\ stateCalls[c].pc = "idle"
    /\ stateCalls' = [stateCalls EXCEPT
           ![c].pc = "in",
           ![c].call = StateCall("Merge", "", 0, delta),
           ![c].todo = DOMAIN delta]
    /\ UNCHANGED mapState

\* Lines 57-59: Merge takes the lock.
MergeLock(c, delta) == Lock(c, StateCall("Merge", "", 0, delta))

\* Lines 60-62: one iteration of Merge's loop over the delta, whose order the
\* language leaves open: an entry of the delta is written.
MergeWrite(c, k) ==
    /\ stateCalls[c].pc = "in"
    /\ stateCalls[c].call.name = "Merge"
    /\ k \in stateCalls[c].todo
    /\ mapState' = [mapState EXCEPT
           !.data = [x \in DOMAIN @ \cup {k} |->
                        IF x = k THEN stateCalls[c].call.delta[k] ELSE @[x]]]
    /\ stateCalls' = [stateCalls EXCEPT ![c].todo = @ \ {k}]

\* Line 63 with line 59: the loop is over; Merge releases the lock.
MergeReturn(c) ==
    /\ stateCalls[c].pc = "in"
    /\ stateCalls[c].call.name = "Merge"
    /\ stateCalls[c].todo = {}
    /\ mapState' = [mapState EXCEPT
           !.mu.w = IF @ = c THEN "" ELSE @]
    /\ stateCalls' = [stateCalls EXCEPT ![c].pc = "done"]

-----------------------------------------------------------------------------
(* The specifications *)

\* Submit with a given set of configurations, and the worker pool.
NextPool(cfgs) ==
    \/ \E cfg \in cfgs : SubmitRegister(cfg)
    \/ \E id \in JobIds : SubmitEnqueue(id)
    \/ \E w \in Workers : WorkerDequeue(w)
    \/ \E w \in Workers : ExecuteJobStart(w)
    \/ \E w \in Workers : AgentReturn(w)
    \/ \E w \in Workers : ExecuteJobRecord(w)
    \/ \E w \in Workers : ExecuteJobFinal(w)

NextRead ==
    \/ \E r \in Readers, id \in JobIds \cup {UnknownID} : GetStatus(r, id)
    \/ \E r \in Readers, id \in JobIds \cup {UnknownID} : GetResultLookup(r, id)
    \/ \E r \in Readers : GetResultPoll(r)
    \/ \E r \in Readers : GetResultReturn(r)

NextSync ==
    \/ ExecuteSyncCall
    \/ ExecuteSyncReturn

\* The executor alone: no reasoning loop is under way.
InitIdleLoop ==
    /\ maxTurns = DefaultMaxTurns
    /\ subAgents = <<>>
    /\ taskState = EmptyMap
    /\ IdleLoop

Init == InitExec /\ InitIdleLoop /\ InitIdleComposite /\ InitIdleStore

\* Jobs submitted without a timeout, their workers and their readers.
Next ==
    /\ NextPool({NilConfig}) \/ NextRead
    /\ UNCHANGED <<loopVars, compVars, storeVars>>

Spec == Init /\ [][Next]_vars

\* Jobs submitted with and without a timeout, and the timer of the context.
NextTimeout ==
    /\ \/ NextPool(Configs)
       \/ \E w \in Workers : ContextTimeout(w)
    /\ UNCHANGED <<loopVars, compVars, storeVars>>

SpecTimeout == Init /\ [][NextTimeout]_vars

\* Jobs submitted to the pool beside callers of ExecuteSync.
NextExecSync ==
    /\ NextPool({NilConfig}) \/ NextSync
    /\ UNCHANGED <<loopVars, compVars, storeVars>>

SpecSync == Init /\ [][NextExecSync]_vars

\* One call of LLMAgent.Execute, on an agent configured with a MaxTurns of
\* -1 or 1..MaxTurnsCfg, with every answer of the model.
LoopInit ==
    /\ InitExec /\ InitLoop({-1} \cup 1..MaxTurnsCfg)
    /\ InitIdleComposite /\ InitIdleStore

LoopNext ==
    /\ NextLoop(ToolRequests, Contents)
    /\ UNCHANGED <<execVars, compVars, storeVars>>

SpecLoop == LoopInit /\ [][LoopNext]_vars

\* One call of LLMAgent.Execute on an agent configured with any MaxTurns of
\* -1..MaxTurnsCfg, 0 (the default) included, with a model that has one
\* tool-call list and two contents to answer with.
BudgetInit ==
    /\ InitExec /\ InitLoop(-1..MaxTurnsCfg)
    /\ InitIdleComposite /\ InitIdleStore

BudgetNext ==
    /\ NextLoop({<<Request("lookup"), Request("calc")>>},
                {ContentAnswer, ContentDelegateBob})
    /\ UNCHANGED <<execVars, compVars, storeVars>>

SpecBudget == BudgetInit /\ [][BudgetNext]_vars

\* One Execute of a SequentialAgent or of a PipelineAgent over up to
\* MaxChildren children, each child's Execute a call that may write the state
\* of the task before it returns.
ChainInit ==
    /\ InitExec /\ InitIdleLoop /\ InitIdleStore
    /\ InitComposite({"sequential", "pipeline"})

ChainNext ==
    /\ \/ SeqBegin
       \/ SeqCall
       \/ SeqAfter
       \/ SeqEnd
       \/ PipeBegin
       \/ PipeCall
       \/ PipeAfter
       \/ PipeEnd
       \/ \E i \in 1..Len(agents) : AgentWrites(i)
       \/ \E i \in 1..Len(agents) : AgentReturns(i)
    /\ UNCHANGED <<execVars, loopVars, storeVars>>

SpecChain == ChainInit /\ [][ChainNext]_vars

\* One Execute of a ParallelAgent over up to MaxChildren children, the
\* goroutines of the children interleaved in every order.
ParallelInit ==
    InitExec /\ InitIdleLoop /\ InitComposite({"parallel"}) /\ InitIdleStore

ParallelNext ==
    /\ \/ ParSpawn
       \/ \E i \in 1..Len(agents) : ParGoCopy(i)
       \/ \E i \in 1..Len(agents) : AgentWrites(i)
       \/ \E i \in 1..Len(agents) : ParGoReturn(i)
       \/ ParMerge
    /\ UNCHANGED <<execVars, loopVars, storeVars>>

SpecParallel == ParallelInit /\ [][ParallelNext]_vars

\* The worker pool under fair scheduling: up to LiveJobs jobs submitted
\* without a timeout, and the callers of GetResult. Each worker goroutine
\* that can take a step eventually takes one, which includes the return of
\* e.agent.Execute; so does each caller of GetResult inside its poll loop.
\* Nothing is assumed of the callers of Submit.
WorkerStep(w) ==
    \/ WorkerDequeue(w)
    \/ ExecuteJobStart(w)
    \/ AgentReturn(w)
    \/ ExecuteJobRecord(w)
    \/ ExecuteJobFinal(w)

ReaderStep(r) == GetResultPoll(r) \/ GetResultReturn(r)

LiveNext ==
    /\ \/ nextID <= LiveJobs /\ SubmitRegister(NilConfig)
       \/ \E id \in JobIds : SubmitEnqueue(id)
       \/ \E w \in Workers : WorkerDequeue(w)
       \/ \E w \in Workers : ExecuteJobStart(w)
       \/ \E w \in Workers : AgentReturn(w)
       \/ \E w \in Workers : ExecuteJobRecord(w)
       \/ \E w \in Workers : ExecuteJobFinal(w)
       \/ \E r \in Readers, id \in 1..LiveJobs : GetResultLookup(r, id)
       \/ \E r \in Readers : GetResultPoll(r)
       \/ \E r \in Readers : GetResultReturn(r)
    /\ UNCHANGED <<loopVars, compVars, storeVars>>

Fairness ==
    /\ \A w \in Workers : WF_execVars(WorkerStep(w))
    /\ \A r \in Readers : WF_execVars(ReaderStep(r))

SpecLive == Init /\ [][LiveNext]_vars /\ Fairness

\* One MapState and the concurrent calls of its methods, one by each caller.
StoreInit == InitExec /\ InitIdleLoop /\ InitIdleComposite /\ InitStore

StoreNext ==
    /\ \/ \E c \in Callers, k \in {"a", "b"} : GetLock(c, k)
       \/ \E c \in Callers : GetReturn(c)
       \/ \E c \in Callers : KeysLock(c)
       \/ \E c \in Callers : KeysReturn(c)
       \/ \E c \in Callers : SetLock(c, "b", 3)
       \/ \E c \in Callers : SetReturn(c)
       \/ \E c \in Callers, k \in {"a", "c"} : DeleteLock(c, k)
       \/ \E c \in Callers : DeleteReturn(c)
       \/ \E c \in Callers, d \in Deltas : MergeLock(c, d)
       \/ \E c \in Callers, k \in {"a", "b"} : MergeWrite(c, k)
       \/ \E c \in Callers : MergeReturn(c)
    /\ UNCHANGED <<execVars, loopVars, compVars>>

SpecStore == StoreInit /\ [][StoreNext]_vars

\* One job of an Executor whose agent is of one of the four kinds: a
\* reasoning agent (ckind is "none") or a composite. The agent's Execute runs
\* inside executeJob, between the running status and the record of what it
\* returned.
Executing == \E w \in Workers : wPc[w] = "exec"

AgentDone == IF ckind = "none" THEN lp = "done" ELSE cpc = "done"

\* The *Result and error the agent's Execute returned, the Result as the
\* executor holds it.
AgentReturned ==
    IF ckind = "none"
    THEN <<[isNil |-> FALSE, Success |-> result.Success,
            Output |-> result.Output], retErr>>
    ELSE <<[isNil |-> FALSE, Success |-> compResult.Success,
            Output |-> compResult.Output], compErr>>

\* Line 219: result, err := e.agent.Execute(ctx, job.Task) returns what the
\* agent's Execute has returned.
AgentExecuteReturn(w) ==
    /\ wPc[w] = "exec"
    /\ AgentDone
    /\ wRet' = [wRet EXCEPT ![w] = AgentReturned]
    /\ agentRet' = [agentRet EXCEPT ![wJob[w]] = AgentReturned]
    /\ wPc' = [wPc EXCEPT ![w] = "record"]
    /\ UNCHANGED <<jobs, job, jobQueue, nextID, subPc, wJob, wCtx, rd, syncPc,
                   syncRet, expired, taken>>

KindsInit ==
    /\ InitExec /\ InitIdleStore
    /\ \/ InitLoop({-1} \cup 1..MaxTurnsCfg) /\ InitIdleComposite
       \/ InitIdleLoop /\ InitComposite({"sequential", "pipeline", "parallel"})

KindsNext ==
    \/ /\ \/ nextID = 1 /\ SubmitRegister(NilConfig)
          \/ \E id \in JobIds : SubmitEnqueue(id)
          \/ \E w \in Workers : WorkerDequeue(w)
          \/ \E w \in Workers : ExecuteJobStart(w)
          \/ \E w \in Workers : AgentExecuteReturn(w)
          \/ \E w \in Workers : ExecuteJobRecord(w)
          \/ \E w \in Workers : ExecuteJobFinal(w)
       /\ UNCHANGED <<loopVars, compVars, storeVars>>
    \/ /\ Executing
       /\ ckind = "none"
       /\ NextLoop(ToolRequests, Contents)
       /\ UNCHANGED <<execVars, compVars, storeVars>>
    \/ /\ Executing
       /\ \/ SeqBegin
          \/ SeqCall
          \/ SeqAfter
          \/ SeqEnd
          \/ PipeBegin
          \/ PipeCall
          \/ PipeAfter
          \/ PipeEnd
          \/ ParSpawn
          \/ \E i \in 1..Len(agents) : ParGoCopy(i)
          \/ \E i \in 1..Len(agents) : AgentWrites(i)
          \/ \E i \in 1..Len(agents) : AgentReturns(i)
          \/ \E i \in 1..Len(agents) : ParGoReturn(i)
          \/ ParMerge
       /\ UNCHANGED <<execVars, loopVars, storeVars>>

SpecKinds == KindsInit /\ [][KindsNext]_vars

\* One Execute of a ParallelAgent whose one child is a reasoning agent: the
\* child's Execute is the loop of LLMAgent.Execute, run on the copy of the
\* task the goroutine made.
ReasoningChildInit ==
    /\ InitExec /\ InitIdleStore
    /\ InitLoop({-1} \cup 1..MaxTurnsCfg)
    /\ ckind = "parallel"
    /\ agents = <<AgentName>>
    /\ task \in [Input : CompositeInputs, State : {taskState}]
    /\ task0 = task
    /\ cpc = "ready"
    /\ cidx = 0
    /\ currentInput = ""
    /\ child = [i \in 1..Len(agents) |-> IdleChild]
    /\ results = [i \in 1..Len(agents) |-> NilAgentResult]
    /\ compResult = NewCompositeResult
    /\ compErr = NoError

\* part_002 line 116, inside the call: a step of the child's
\* LLMAgent.Execute. Its task.State is the State map of the copy.
ReasoningChildStep ==
    /\ ckind = "parallel"
    /\ child[1].pc = "running"
    /\ NextLoop(ToolRequests, Contents)
    /\ child' = [child EXCEPT ![1].State = taskState']
    /\ UNCHANGED <<execVars, storeVars, ckind, agents, task, task0, cpc, cidx,
                   currentInput, results, compResult, compErr>>

\* The *Result of the child's LLMAgent.Execute as the ParallelAgent reads
\* it: its Output nil or the string, its Artifacts in one of the orders
\* extractArtifacts may produce from a map.
ReasoningResult(arts) ==
    [Success |-> result.Success,
     Output |-> IF result.Output = <<>> THEN OutNil ELSE OutStr(result.Output),
     Error |-> result.Error,
     Steps |-> result.Steps,
     Artifacts |-> arts]

\* part_002 lines 116-118 and 107: the child's LLMAgent.Execute has
\* returned, results[idx] receives what it returned, the goroutine is done.
ReasoningChildReturn ==
    /\ ckind = "parallel"
    /\ child[1].pc = "running"
    /\ lp = "done"
    /\ \E arts \in [1..Cardinality(result.Artifacts) -> result.Artifacts] :
          /\ \A i, j \in DOMAIN arts : arts[i] = arts[j] => i = j
          /\ LET out == <<ReasoningResult(arts), retErr>>
             IN /\ results' = [results EXCEPT
                                  ![1] = [result |-> out[1], err |-> out[2]]]
                /\ child' = [child EXCEPT ![1].pc = "done",
                                          ![1].rank = NextRank,
                                          ![1].ret = out]
    /\ UNCHANGED <<execVars, loopVars, storeVars, ckind, agents, task, task0,
                   cpc, cidx, currentInput, compResult, compErr>>

ReasoningChildNext ==
    \/ /\ \/ ParSpawn
          \/ \E i \in 1..Len(agents) : ParGoCopy(i)
          \/ ParMerge
       /\ UNCHANGED <<execVars, loopVars, storeVars>>
    \/ ReasoningChildStep
    \/ ReasoningChildReturn

SpecReasoningChild == ReasoningChildInit /\ [][ReasoningChildNext]_vars

-----------------------------------------------------------------------------
(* Properties of the executor *)

Allocated(id) == id \in JobIds /\ subPc[id] # "none"

\* How often a task id occurs in the channel.
InQueue(id) == Cardinality({k \in 1..Len(jobQueue) : jobQueue[k] = id})

AllWorkersBusy == \A w \in Workers : wPc[w] = "exec"

\* C1: a job's Status only moves pending -> running -> completed|failed: a
\* job is created pending, becomes terminal only from running, never moves
\* back and never changes once it is completed or failed.
C1_StatusTransitions ==
    [][\A i \in JobIds :
          \/ job'[i].Status = job[i].Status
          \/ job[i].Status = "" /\ job'[i].Status = JobPending
          \/ job[i].Status = JobPending /\ job'[i].Status = JobRunning
          \/ job[i].Status = JobRunning /\ IsTerminal(job'[i].Status)]_vars

C1_Witness ==
    \E i, k \in JobIds :
        /\ job[i].Status = JobCompleted
        /\ job[k].Status = JobFailed
        /\ \E r \in Readers : rd[r].pc = "done"

\* C2: a GetResult call on a submitted job has returned only if the job's
\* status is completed or failed, and it returned the Result the wrapped
\* agent produced, with a nil error when completed and the agent's error
\* when failed.
C2_GetResultReturnsFinal ==
    \A r \in Readers :
        (rd[r].op = "GetResult" /\ rd[r].pc = "done" /\ rd[r].err # ErrNotFound)
        => /\ IsTerminal(job[rd[r].id].Status)
           /\ rd[r].status = job[rd[r].id].Status
           /\ rd[r].result = agentRet[rd[r].id][1]
           /\ ~rd[r].result.isNil
           /\ job[rd[r].id].Status = JobCompleted => rd[r].err = NoError
           /\ job[rd[r].id].Status = JobFailed =>
                  rd[r].err = agentRet[rd[r].id][2] /\ rd[r].err # NoError

C2_Witness ==
    \E r \in Readers :
        /\ rd[r].op = "GetResult"
        /\ rd[r].pc = "done"
        /\ rd[r].status = JobFailed
        /\ rd[r].err = ErrAgent
        /\ rd[r].result = FailResult

\* C3: whenever a job's status is completed or failed, the job already holds
\* the Result and Error the agent returned; so does every reader that has
\* seen a terminal status and is about to read them.
C3_TerminalHasResult ==
    /\ \A i \in JobIds :
          IsTerminal(job[i].Status)
          => job[i].Result = agentRet[i][1] /\ job[i].Error = agentRet[i][2]
                /\ ~job[i].Result.isNil
    /\ \A r \in Readers :
          rd[r].pc = "read"
          => job[rd[r].id].Result = agentRet[rd[r].id][1]
                /\ job[rd[r].id].Error = agentRet[rd[r].id][2]
                /\ ~job[rd[r].id].Result.isNil

C3_Witness ==
    \E r \in Readers :
        /\ rd[r].pc = "read"
        /\ rd[r].status = JobCompleted
        /\ \E w \in Workers : wPc[w] \in {"record", "final"}

\* C4: the channel never holds more than its capacity; a job whose Submit has
\* not returned is not in the channel and no worker has it; a job whose
\* Submit returned is either in the channel exactly once, or was received by
\* exactly one worker exactly once, which is executing it or has finished it.
C4_BackpressureNoDrop ==
    /\ Len(jobQueue) <= QueueCap
    /\ \A i \in JobIds :
          /\ subPc[i] # "returned" => InQueue(i) = 0 /\ taken[i] = <<>>
          /\ subPc[i] = "returned" => InQueue(i) + Len(taken[i]) = 1
          /\ Cardinality({w \in Workers : wJob[w] = i}) <= Len(taken[i])
          /\ taken[i] # <<>> =>
                \/ wJob[taken[i][1]] = i
                \/ IsTerminal(job[i].Status)
          /\ IsTerminal(job[i].Status) => Len(taken[i]) = 1

C4_Witness ==
    \E i, k \in JobIds :
        /\ subPc[i] = "enqueue"
        /\ Len(jobQueue) = QueueCap
        /\ subPc[k] = "returned"
        /\ IsTerminal(job[k].Status)
        /\ Len(taken[k]) = 1

\* C5 (as claimed): a job whose positive timeout expired before the wrapped
\* agent returned never ends in status completed.
C5_TimeoutNeverCompleted ==
    \A i \in expired :
        (job[i].Config.TimeoutSeconds > 0) => job[i].Status # JobCompleted

\* C6: a GetStatus or GetResult lookup returns not-found, at once, exactly
\* when the identifier was not allocated by a Submit call before it; an
\* allocated identifier is found also while its Submit is blocked.
C6_NotFoundIffUnallocated ==
    [][\A r \in Readers :
          (ReaderFree(r) /\ rd'[r] # rd[r])
          => /\ (rd'[r].err = ErrNotFound) <=> ~Allocated(rd'[r].id)
             /\ rd'[r].err = ErrNotFound => rd'[r].pc = "done"
             /\ rd'[r].op = "GetStatus" => rd'[r].pc = "done"
             /\ (rd'[r].op = "GetStatus" /\ Allocated(rd'[r].id))
                   => rd'[r].status = job[rd'[r].id].Status]_vars

C6_Witness ==
    \E r \in Readers :
        /\ rd[r].op = "GetStatus"
        /\ rd[r].pc = "done"
        /\ rd[r].err = NoError
        /\ rd[r].status = JobPending
        /\ rd[r].id \in JobIds
        /\ subPc[rd[r].id] = "enqueue"
        /\ Len(jobQueue) = QueueCap

\* C7: a step of ExecuteSync changes neither the job table, nor any job,
\* nor the channel, nor any worker or Submit call.
C7_ExecuteSyncFrame ==
    [][(syncPc' # syncPc \/ syncRet' # syncRet)
         => UNCHANGED <<jobs, job, jobQueue, nextID, subPc, wPc, wJob, wCtx,
                        wRet, taken>>]_vars

\* An ExecuteSync call is under way and can return while every worker is
\* inside the agent and the channel is full.
C7_Witness ==
    /\ syncPc = "running"
    /\ AllWorkersBusy
    /\ Len(jobQueue) = QueueCap
    /\ ENABLED ExecuteSyncReturn

-----------------------------------------------------------------------------
(* Properties of the reasoning loop *)

\* Execute has returned after a first model call that did not fail and
\* carried no tool calls.
AnsweredAtOnce ==
    /\ lp = "done"
    /\ turn = 0
    /\ calls # <<>>
    /\ retErr # ErrModel
    /\ resp.ToolCalls = <<>>

\* C8 (as claimed): with a max-turn budget of 1 and a model response without
\* tool calls that does not fail, Execute returns Success true, a nil error
\* and the model's content as output.
C8_OneTurnCompletes ==
    (maxTurns = 1 /\ AnsweredAtOnce)
    => /\ result.Success
       /\ retErr = NoError
       /\ result.Output = resp.Content

\* C8 (amended): the same, for a response that does not delegate, that is,
\* whose content does not contain both the delegation phrase and the name of
\* a configured sub-agent; the trail is then the one reasoning step.
C8_OneTurnCompletesUnlessDelegated ==
    (maxTurns = 1 /\ AnsweredAtOnce /\ DelegateTarget(resp.Content) = 0)
    => /\ result.Success
       /\ retErr = NoError
       /\ result.Output = resp.Content
       /\ Len(result.Steps) = 1
       /\ result.Steps[1].Action = "reasoning"
       /\ result.Steps[1].Output = resp.Content

C8_Witness ==
    /\ maxTurns = 1
    /\ AnsweredAtOnce
    /\ subAgents = <<NameBob>>
    /\ resp.Content = ContentAskBob
    /\ result.Success
    /\ result.Output = ContentAskBob

\* C9: when Execute has returned after maxTurns turns, none of which completed
\* or delegated, it returned the error "max iterations reached" with Success
\* false, and the trail has exactly maxTurns steps, none of them a model or
\* sub-agent failure.
C9_ExhaustedAfterMaxTurns ==
    (lp = "done" /\ turn = maxTurns)
    => /\ ~result.Success
       /\ retErr = ErrMaxIterations
       /\ result.Error = ErrMaxIterations
       /\ retErr \notin {ErrModel, ErrSub}
       /\ Len(result.Steps) = maxTurns
       /\ \A i \in 1..Len(result.Steps) :
              result.Steps[i].Action = "tool_execution"

C9_Witness ==
    /\ lp = "done"
    /\ turn = maxTurns
    /\ maxTurns = DefaultMaxTurns
    /\ retErr = ErrMaxIterations
    /\ Len(result.Steps) = DefaultMaxTurns

\* C10 (as claimed): once the calls of a turn have been gone through, every
\* call with a configured tool was executed, whatever became of the calls
\* before it, and the step's tool-call list holds every requested call, in
\* order, each with its own result or error.
C10_EveryCallRecorded ==
    (lp = "tools" /\ tcIdx > Len(resp.ToolCalls))
    => /\ \A i \in 1..Len(resp.ToolCalls) :
              FindTool(resp.ToolCalls[i].Name) # 0
              => \E k \in 1..Len(calls) :
                     calls[k] = Call("tool", resp.ToolCalls[i].Name)
       /\ step.ToolCalls = resp.ToolCalls

\* The number of model calls made so far.
ModelCalls == Cardinality({k \in 1..Len(calls) : calls[k].kind = "model"})

\* C11: once a model call has failed, in whatever turn, Execute has returned:
\* the failed call is the last call made (no tool, no sub-agent and no further
\* model call follows it, and each turn made one model call), no step of the
\* loop is enabled any more, the Result has Success false, its last step is
\* the failing turn's and carries the error, and the model's error is the
\* error returned.
C11_ModelFailureEndsLoop ==
    (retErr = ErrModel \/ \E i \in 1..Len(result.Steps) :
                             result.Steps[i].Error = ErrModel)
    => /\ lp = "done"
       /\ ~ENABLED LoopNext
       /\ retErr = ErrModel
       /\ ~result.Success
       /\ result.Error = "LLM error: " \o ErrModel
       /\ Len(result.Steps) = turn + 1
       /\ result.Steps[Len(result.Steps)].Error = ErrModel
       /\ \A i \in 1..(Len(result.Steps) - 1) : result.Steps[i].Error = ""
       /\ calls[Len(calls)] = Call("model", "")
       /\ ModelCalls = turn + 1

\* The model fails in the second turn, after a turn that executed a tool.
C11_Witness ==
    /\ lp = "done"
    /\ retErr = ErrModel
    /\ turn = 1
    /\ Len(result.Steps) = 2
    /\ result.Steps[1].Action = "tool_execution"
    /\ \E k \in 1..Len(calls) : calls[k].kind = "tool"

\* Execute has returned after delegating to a sub-agent.
DelegatedAndReturned ==
    /\ lp = "done"
    /\ calls # <<>>
    /\ calls[Len(calls)].kind = "sub"

\* C12 (as claimed): the Result of an agent whose delegated sub-agent has
\* returned, with or without an error, ends with the steps the sub-agent
\* itself executed, after the steps that ran before it.
C12_ResultCarriesAllSteps ==
    DelegatedAndReturned
    => LET out == CHOOSE o \in SubOutcomes(calls[Len(calls)].name) :
                      o[2] = retErr
           n == Len(result.Steps)
           k == Len(out[1].Steps)
       IN /\ n >= k + 1
          /\ SubSeq(result.Steps, n - k + 1, n) = out[1].Steps
          /\ result.Steps[n - k].Action = "delegate"

-----------------------------------------------------------------------------
(* Properties of the composite agents *)

\* The children of the composite, by index.
Children == 1..Len(agents)

\* Child i's Execute has been called (and may have returned).
Started(i) == child[i].pc \in {"running", "done"}

\* C13: during a Parallel execution each child's task has a State map of its
\* own, which holds the entries the parent's state had at the call and the
\* child's own write, never a sibling's write; and as long as a child has not
\* finished, the parent's state map is what it was at the call.
C13_ParallelIsolation ==
    ckind = "parallel"
    => /\ \A i \in Children :
              Started(i)
              => /\ child[i].own
                 /\ child[i].seen = task0.State
                 /\ StateOf(i) = IF child[i].wrote
                                 THEN Overlay(task0.State, "w" :> i)
                                 ELSE task0.State
                 /\ \A j \in Children \ {i} :
                        "w" \in DOMAIN StateOf(i) => StateOf(i)["w"] # j
       /\ (\E i \in Children : child[i].pc # "done")
             => task.State = task0.State

\* Two children run at once and each has written the same key of a state that
\* had the key already.
C13_Witness ==
    /\ ckind = "parallel"
    /\ cpc = "wait"
    /\ Len(agents) >= 2
    /\ "w" \in DOMAIN task0.State
    /\ child[1].pc = "running" /\ child[1].wrote
    /\ child[2].pc = "running" /\ child[2].wrote
    /\ StateOf(1)["w"] = 1
    /\ StateOf(2)["w"] = 2
    /\ task.State["w"] = 0

\* The state delta on the last step of what child i returned.
DeltaOf(i) ==
    LET st == results[i].result.Steps
    IN IF st = <<>> THEN EmptyMap ELSE st[Len(st)].StateDelta

\* The children whose last step's delta has key k.
Writers(k) == {i \in Children : k \in DOMAIN DeltaOf(i)}

\* The highest of a non-empty set of indices.
Highest(S) == CHOOSE i \in S : \A j \in S : j <= i

\* A Parallel execution has returned without an error.
ParallelSucceeded == ckind = "parallel" /\ cpc = "done" /\ compErr = NoError

\* C14: after a successful Parallel execution the parent's state has the keys
\* it had at the call and the keys of the deltas on the children's last
\* steps; a key of some delta has the value of the highest-index child whose
\* delta has it, any other key the value it had at the call.
C14_MergeInIndexOrder ==
    ParallelSucceeded
    => /\ DOMAIN task.State =
             DOMAIN task0.State \cup UNION {DOMAIN DeltaOf(i) : i \in Children}
       /\ \A k \in DOMAIN task.State :
              task.State[k] = IF Writers(k) # {}
                              THEN DeltaOf(Highest(Writers(k)))[k]
                              ELSE task0.State[k]

\* Both children report a delta for a key the state had, the second child
\* returned first, and the second child's value is the state's.
C14_Witness ==
    /\ ParallelSucceeded
    /\ Len(agents) >= 2
    /\ "k" \in DOMAIN task0.State
    /\ task0.State["k"] = 0
    /\ Writers("k") = {1, 2}
    /\ child[2].rank = 1
    /\ child[1].rank = 2
    /\ task.State["k"] = 2
    /\ task.State["w"] = 0

\* C15: the Output of a successful Parallel execution over children with
\* distinct names is a mapping whose keys are the children's names, the name
\* of each child mapped to the output that child's Execute returned.
C15_OutputsByName ==
    (/\ ParallelSucceeded
     /\ \A i, j \in Children : agents[i] = agents[j] => i = j)
    => /\ compResult.Output.kind = "map"
       /\ DOMAIN compResult.Output.map = {agents[i] : i \in Children}
       /\ \A i \in Children :
              compResult.Output.map[agents[i]] = child[i].ret[1].Output

\* Two children with different names and different outputs, the second of
\* which returned first.
C15_Witness ==
    /\ ParallelSucceeded
    /\ agents = <<"web", "db">>
    /\ child[2].rank = 1
    /\ child[1].rank = 2
    /\ compResult.Output.map["web"] = OutStr("in/web")
    /\ compResult.Output.map["db"] = OutNum(2)

\* C16: when a Parallel execution has returned and the Execute of one of its
\* children had returned an error, whatever the other children returned, the
\* Parallel execution returned an error (that of the first such child in
\* index order), with Success false and a nil Output.
C16_ParallelFailsAsAWhole ==
    (/\ ckind = "parallel"
     /\ cpc = "done"
     /\ \E i \in Children : child[i].ret[2] # NoError)
    => /\ compErr # NoError
       /\ compErr = child[Highest({0} \cup
                                  {i \in Children :
                                      \A j \in 1..i : child[j].ret[2] = NoError})
                         + 1].ret[2]
       /\ ~compResult.Success
       /\ compResult.Output = OutNil
       /\ compResult.Error # ""

\* The first child succeeded with an output and the second failed.
C16_Witness ==
    /\ ckind = "parallel"
    /\ cpc = "done"
    /\ Len(agents) >= 2
    /\ child[1].ret[2] = NoError
    /\ child[1].ret[1].Output.kind = "string"
    /\ child[2].ret[2] = ErrChild
    /\ compErr = ErrChild
    /\ compResult.Output = OutNil

\* C17: a Parallel agent starts the execution of each child once, all of them
\* before it waits, and when it has returned, with or without an error, the
\* execution of every child has finished.
C17_OneExecutionPerChildAllJoined ==
    ckind = "parallel"
    => /\ \A i \in Children : child[i].starts <= 1
       /\ cpc \in {"wait", "done"}
             => \A i \in Children : child[i].starts = 1
       /\ cpc = "done"
             => \A i \in Children : child[i].pc = "done"

\* The first child failed first, the second returned after it, and Execute
\* has returned the failure.
C17_Witness ==
    /\ ckind = "parallel"
    /\ cpc = "done"
    /\ Len(agents) >= 2
    /\ child[1].ret[2] = ErrChild
    /\ child[1].rank = 1
    /\ child[2].rank = 2
    /\ child[2].pc = "done"
    /\ compErr = ErrChild

\* C18: in a Sequential agent every child is given the caller's task itself,
\* and the entry a child wrote during its execution is in the state the child
\* after it received when it started.
C18_SequentialStateFlows ==
    ckind = "sequential"
    => \A i \in Children :
          Started(i)
          => /\ ~child[i].own
             /\ (i > 1 /\ child[i - 1].wrote)
                   => /\ "w" \in DOMAIN child[i].seen
                      /\ child[i].seen["w"] = i - 1

\* The first child overwrote an entry of the state and the second has started.
C18_Witness ==
    /\ ckind = "sequential"
    /\ Len(agents) >= 2
    /\ "w" \in DOMAIN task0.State
    /\ task0.State["w"] = 0
    /\ child[1].wrote
    /\ Started(2)
    /\ child[2].seen["w"] = 1

\* C19: in a Pipeline agent the first stage is given the input the task had
\* at the call, every later stage the coerced output of the stage before it
\* (a string as it is, anything else as fmt.Sprint prints it), and the Output
\* of a successful Pipeline with stages is the last stage's coerced output.
C19_PipelineDataFlow ==
    ckind = "pipeline"
    => /\ \A i \in Children :
              Started(i)
              => child[i].Input = IF i = 1
                                  THEN task0.Input
                                  ELSE Coerce(child[i - 1].ret[1].Output)
       /\ (cpc = "done" /\ compErr = NoError /\ agents # <<>>)
             => /\ compResult.Success
                /\ compResult.Output =
                      OutStr(Coerce(child[Len(agents)].ret[1].Output))

\* The first stage returned the number 1, the second stage was given the
\* text "1" and made the Pipeline's output from it.
C19_Witness ==
    /\ ckind = "pipeline"
    /\ cpc = "done"
    /\ compErr = NoError
    /\ agents = <<"web", "db">>
    /\ child[1].Input = "in"
    /\ child[1].ret[1].Output = OutNum(1)
    /\ child[2].Input = "1"
    /\ compResult.Output = OutStr("1/db")

\* C20: in a Sequential and in a Pipeline agent at most one child executes at
\* a time and each at most once; a child is executed only when every child
\* before it in the list has returned without an error, so the children
\* return in list order and none is executed after a failure; when Execute
\* has returned and a child had failed, it returned that child's error with
\* Success false, and when it returned no error every child had run.
C20_InOrderStopAtFirstFailure ==
    ckind \in {"sequential", "pipeline"}
    => /\ Cardinality({i \in Children : child[i].pc = "running"}) <= 1
       /\ \A i \in Children :
              /\ child[i].starts <= 1
              /\ Started(i)
                    => \A j \in 1..(i - 1) :
                          /\ child[j].pc = "done"
                          /\ child[j].ret[2] = NoError
              /\ child[i].pc = "done" => child[i].rank = i
       /\ cpc = "done"
             => /\ \A i \in Children :
                       child[i].ret[2] # NoError
                       => /\ compErr = child[i].ret[2]
                          /\ ~compResult.Success
                          /\ compResult.Error # ""
                /\ compErr = NoError
                      => /\ compResult.Success
                         /\ \A i \in Children : child[i].pc = "done"

\* The first of two children has failed: Execute has returned its error and
\* the second child was never executed.
C20_Witness ==
    /\ ckind = "sequential"
    /\ cpc = "done"
    /\ Len(agents) = 2
    /\ child[1].ret[2] = ErrChild
    /\ child[2].pc = "idle"
    /\ child[2].starts = 0
    /\ compErr = ErrChild
    /\ ~compResult.Success

-----------------------------------------------------------------------------
(* Properties of the reasoning loop: tools, delegation, success *)

\* A step of the loop that goes through tool call tcIdx of the response.
ToolCallStep == lp = "tools" /\ tcIdx' = tcIdx + 1

\* The step leaves the task state as it was but for the entries of m, which
\* it holds afterwards.
Stored(m) ==
    /\ DOMAIN taskState' = DOMAIN taskState \cup DOMAIN m
    /\ \A k \in DOMAIN taskState' :
           taskState'[k] = IF k \in DOMAIN m THEN m[k] ELSE taskState[k]

SubCalls == Cardinality({k \in 1..Len(calls) : calls[k].kind = "sub"})

-----------------------------------------------------------------------------
(* Properties of MapState *)

\* What a call does to the contents when it runs alone: Set writes its
\* entry, Delete removes its key, Merge writes every entry of its delta and
\* keeps the other keys, Get and Keys change nothing.
SeqEffect(d, call) ==
    CASE call.name = "Set" ->
           [x \in DOMAIN d \cup {call.key} |->
               IF x = call.key THEN call.value ELSE d[x]]
      [] call.name = "Delete" ->
           [x \in DOMAIN d \ {call.key} |-> d[x]]
      [] call.name = "Merge" ->
           [x \in DOMAIN d \cup DOMAIN call.delta |->
               IF x \in DOMAIN call.delta THEN call.delta[x] ELSE d[x]]
      [] OTHER -> d

RECURSIVE SeqFinal(_, _, _)
\* The contents after the calls of the callers order[i], order[i+1], ... have
\* run one after the other on the contents d.
SeqFinal(order, i, d) ==
    IF i > Len(order) THEN d
    ELSE SeqFinal(order, i + 1, SeqEffect(d, stateCalls[order[i]].call))

\* The orders in which the callers of S can be put.
Orders(S) ==
    {f \in [1..Cardinality(S) -> S] :
        \A i, j \in 1..Cardinality(S) : f[i] = f[j] => i = j}

\* The callers whose call has returned.
Returned == {c \in DOMAIN stateCalls : stateCalls[c].pc = "done"}

\* C23: whenever no writing call is under way, and so when every call has
\* returned, the contents of the MapState are those that the calls returned
\* so far leave when run one after the other in some order, each Merge
\* overlaying its whole delta and keeping the other keys; never a mixture of
\* two deltas.
C23_MergeAtomicLastWriterWins ==
    (DOMAIN stateCalls # {} /\ mapState.mu.w = "")
    => \E order \in Orders(Returned) :
          mapState.data = SeqFinal(order, 1, InitialData)

\* Two Merges with the same keys and a Keys call have returned; the contents
\* are the first delta over the second, with the key outside of the deltas
\* kept.
C23_Witness ==
    /\ Returned = Callers
    /\ stateCalls["c1"].call = StateCall("Merge", "", 0, DeltaOne)
    /\ stateCalls["c2"].call = StateCall("Merge", "", 0, DeltaTwo)
    /\ stateCalls["c3"].call.name = "Keys"
    /\ stateCalls["c3"].ret = [k \in {"a", "c"} |-> 0]
    /\ mapState.data = ("a" :> 1) @@ ("b" :> 1) @@ ("c" :> 0)

-----------------------------------------------------------------------------
(* Properties of the executor: the worker pool *)

\* The jobs in status running.
RunningJobs == {id \in JobIds : job[id] # NoJob /\ job[id].Status = JobRunning}

\* Worker w received job id from the channel at some time.
Received(w, id) == \E k \in 1..Len(taken[id]) : taken[id][k] = w

\* C24: the jobs in status running are never more than the workers; every
\* running job is the current job of exactly one worker, and every job a
\* worker received before its current one has reached completed or failed.
C24_RunningWithinWorkerCount ==
    /\ Cardinality(RunningJobs) <= Cardinality(Workers)
    /\ \A id \in RunningJobs :
           Cardinality({w \in Workers : wJob[w] = id}) = 1
    /\ \A w \in Workers, id \in JobIds :
           (Received(w, id) /\ wJob[w] # id)
           => /\ job[id] # NoJob
              /\ IsTerminal(job[id].Status)

\* A worker finished the first job and now runs the third, while the other
\* worker runs the second: as many running jobs as workers.
C24_Witness ==
    \E w \in Workers :
        /\ Received(w, 1) /\ Received(w, 3)
        /\ IsTerminal(job[1].Status)
        /\ wJob[w] = 3
        /\ RunningJobs = {2, 3}
        /\ Cardinality(RunningJobs) = Cardinality(Workers)

-----------------------------------------------------------------------------
(* Properties of the executor: progress *)

\* C25: under fair scheduling of the workers, with an agent that returns
\* from every call, every job whose Submit has returned reaches completed or
\* failed, and every GetResult call on such a job returns.
C25_EveryJobFinishes ==
    /\ \A id \in JobIds :
           (subPc[id] = "returned") ~> IsTerminal(job[id].Status)
    /\ \A r \in Readers :
           (rd[r].pc = "poll" /\ subPc[rd[r].id] = "returned")
             ~> (rd[r].pc = "done")

\* A GetResult call on the last job, begun while the job was not finished
\* (the status it read last is the terminal one), has returned the Result.
C25_Witness ==
    \E r \in Readers :
        /\ rd[r].op = "GetResult"
        /\ rd[r].pc = "done"
        /\ rd[r].id = LiveJobs
        /\ IsTerminal(rd[r].status)
        /\ rd[r].result = job[LiveJobs].Result
        /\ \A id \in 1..LiveJobs : IsTerminal(job[id].Status)


-----------------------------------------------------------------------------
(* Properties of the four kinds of agent under the executor *)

\* C26: the Execute of a reasoning agent and of a Sequential, Parallel or
\* Pipeline agent returns a Result with Success true exactly when it returns
\* a nil error; so a job in status completed holds a Result with Success
\* true, and a job in status failed holds a Result with Success false.
C26_SuccessIffNoError ==
    /\ (ckind = "none" /\ lp = "done")
           => (result.Success <=> retErr = NoError)
    /\ (ckind # "none" /\ cpc = "done")
           => (compResult.Success <=> compErr = NoError)
    /\ \A id \in JobIds :
           /\ job[id].Status = JobCompleted
                  => ~job[id].Result.isNil /\ job[id].Result.Success
           /\ job[id].Status = JobFailed
                  => ~job[id].Result.isNil /\ ~job[id].Result.Success

\* The job of a reasoning agent that delegated is completed: the success
\* flag of its Result is the one the sub-agent returned.
C26_Witness ==
    /\ ckind = "none"
    /\ DelegatedAndReturned
    /\ retErr = NoError
    /\ job[1].Status = JobCompleted
    /\ job[1].Result.Success


-----------------------------------------------------------------------------
(* Properties of a reasoning agent as the child of a ParallelAgent *)

\* C27: no step a reasoning agent appends to its Result carries a state
\* delta; when the reasoning agent runs as the child of a Parallel agent,
\* what its tool calls write goes to the State map of the child's copy, and
\* the parent's task.State is at every time, so after the Parallel agent has
\* returned, what it was before the call.
C27_NoDeltaParentStateUnchanged ==
    /\ step.StateDelta = EmptyMap
    /\ \A k \in 1..Len(result.Steps) : result.Steps[k].StateDelta = EmptyMap
    /\ child[1].pc \in {"running", "done"}
           => child[1].own /\ child[1].State = taskState
    /\ task.State = task0.State

\* The Parallel agent has returned without an error; the child's tool calls
\* wrote to the copy, which now differs from the parent's state.
C27_Witness ==
    /\ ckind = "parallel"
    /\ cpc = "done"
    /\ compErr = NoError
    /\ \E k \in 1..Len(calls) : calls[k].kind = "tool"
    /\ child[1].State # task0.State
    /\ task.State = task0.State

=============================================================================
